---- MODULE Spec2Model ----
(***************************************************************************)
(* Device authentication and approval subsystem of opencode-remote.        *)
(*                                                                         *)
(* The model covers the two DeviceStore implementations                    *)
(* (scripts/device-store and electron/main/services/device-store) and the  *)
(* three gateways that expose them over HTTP: the legacy vite.config       *)
(* middleware, the api-middleware plugin and the Electron Auth API server  *)
(* reached through the Vite auth proxy.                                    *)
(*                                                                         *)
(* Strings the code inspects are modelled by their lexical pieces: an IP   *)
(* address is a sequence of pieces (<<"::ffff:", "127.0.0.1">>), a 6-digit *)
(* code is a sequence of digits, a token is the record of its three        *)
(* decoded parts.  Random identifiers are fresh counters (the code draws   *)
(* 8 or 16 random bytes).  The HMAC is an injective function of the key    *)
(* and the signed data.                                                    *)
(***************************************************************************)
EXTENDS Integers, Sequences, FiniteSets, TLC

(***************************************************************************)
(* Bounds of the exploration                                               *)
(***************************************************************************)
MaxDevices == 2
MaxRequests == 1
MaxTicks == 1

(***************************************************************************)
(* Program constants                                                       *)
(***************************************************************************)
REQUEST_EXPIRY_MS == 120000
LIST_WINDOW_MS == 300000
RETENTION_MS == 86400000
TOKEN_DAYS == 365
CODE_MODULUS == 1000000

\* The clock value at which the exploration starts (ms since the epoch).
StartTime == 1000 * 1000
\* Amounts by which the clock advances between two handlers (ms).
TickSteps == {REQUEST_EXPIRY_MS, REQUEST_EXPIRY_MS + 1, 121 * 1000}

(***************************************************************************)
(* Absent values (undefined / null in the code)                            *)
(***************************************************************************)
NoTime == -1
NoId == 0
NoToken == [deviceId |-> NoId, iat |-> 0, exp |-> 0, sig |-> <<>>]
NoHeader == <<>>
NoCode == <<>>
NoBodyDevice == [name |-> "", platform |-> "", browser |-> ""]
NoRequest == [id |-> NoId]
NoDevice == [id |-> NoId]

(***************************************************************************)
(* Token codec                                                             *)
(***************************************************************************)
createHmacSignature(payload, secret) ==
    <<secret, payload.deviceId, payload.iat, payload.exp>>

generateJWT(deviceId, secret, expiresInDays, nowMs) ==
    LET nowS == nowMs \div 1000
        fullPayload == [deviceId |-> deviceId,
                        iat |-> nowS,
                        exp |-> nowS + expiresInDays * 24 * 60 * 60]
    IN [deviceId |-> fullPayload.deviceId,
        iat |-> fullPayload.iat,
        exp |-> fullPayload.exp,
        sig |-> createHmacSignature(fullPayload, secret)]

verifyJWT(token, secret, nowMs) ==
    LET payload == [deviceId |-> token.deviceId, iat |-> token.iat, exp |-> token.exp]
        nowS == nowMs \div 1000
    IN IF token.sig # createHmacSignature(payload, secret)
         THEN [valid |-> FALSE, deviceId |-> NoId]
       ELSE IF payload.exp # 0 /\ payload.exp < nowS
         THEN [valid |-> FALSE, deviceId |-> NoId]
       ELSE [valid |-> TRUE, deviceId |-> payload.deviceId]

(***************************************************************************)
(* Token codec on the text of a token                                      *)
(*                                                                         *)
(* The records above are tokens already split and decoded.  Here a token   *)
(* is the sequence of the pieces its text has between the dots, and a      *)
(* piece is the base64url encoding of a text, an HMAC, or other            *)
(* characters.  A text is the JSON of an object (with the set of members   *)
(* it has), the JSON null, or no JSON at all.                              *)
(***************************************************************************)
JsonObject(has, alg, deviceId, iat, exp) ==
    [type |-> "object", has |-> has, alg |-> alg, deviceId |-> deviceId,
     iat |-> iat, exp |-> exp]
JsonNull ==
    [type |-> "null", has |-> {}, alg |-> "", deviceId |-> NoId, iat |-> 0, exp |-> 0]
NotJson ==
    [type |-> "text", has |-> {}, alg |-> "", deviceId |-> NoId, iat |-> 0, exp |-> 0]
NoPayload ==
    [type |-> "undefined", has |-> {}, alg |-> "", deviceId |-> NoId, iat |-> 0, exp |-> 0]

\* const header = { alg: "HS256", typ: "JWT" }
JwtHeader == JsonObject({"alg", "typ"}, "HS256", NoId, 0, 0)
\* The argument { deviceId } of generateJWT.
DevicePayload(deviceId) == JsonObject({"deviceId"}, "", deviceId, 0, 0)

base64UrlEncode(text) == [kind |-> "b64", text |-> text, key |-> "", over |-> <<>>]

\* A piece that is the encoding of no JSON text; the empty piece.
RawPiece == [kind |-> "raw", text |-> NotJson, key |-> "", over |-> <<>>]
EmptyPiece == [kind |-> "empty", text |-> NotJson, key |-> "", over |-> <<>>]

\* Buffer.from(str, "base64") decodes any string without throwing; what is
\* not the encoding of a JSON text decodes to something JSON.parse refuses.
base64UrlDecode(piece) == IF piece.kind = "b64" THEN piece.text ELSE NotJson

\* HMAC-SHA256 of `${headerB64}.${payloadB64}`, as a piece of the token.
createHmacSignatureText(signed, secret) ==
    [kind |-> "sig", text |-> NotJson, key |-> secret, over |-> signed]

generateJWTText(payload, secret, expiresInDays, nowS) ==
    LET header == JwtHeader
        fullPayload == [payload EXCEPT !.has = @ \cup {"iat", "exp"},
                                       !.iat = nowS,
                                       !.exp = nowS + expiresInDays * 24 * 60 * 60]
        headerB64 == base64UrlEncode(header)
        payloadB64 == base64UrlEncode(fullPayload)
        signature == createHmacSignatureText(<<headerB64, payloadB64>>, secret)
    IN <<headerB64, payloadB64, signature>>

\* What a block of code does: it returns a value or throws.
Returned(valid, payload) == [threw |-> FALSE, valid |-> valid, payload |-> payload]
Thrown == [threw |-> TRUE, valid |-> FALSE, payload |-> NoPayload]

\* The try block of verifyJWT.  JSON.parse throws on a text that is no
\* JSON, and reading .exp of null throws.
verifyJWTTry(token, secret, nowS) ==
    LET parts == token
    IN IF Len(parts) # 3 THEN Returned(FALSE, NoPayload)
       ELSE LET headerB64 == parts[1]
                payloadB64 == parts[2]
                signature == parts[3]
                expectedSignature ==
                    createHmacSignatureText(<<headerB64, payloadB64>>, secret)
                payload == base64UrlDecode(payloadB64)
            IN IF signature # expectedSignature THEN Returned(FALSE, NoPayload)
               ELSE IF payload.type = "text" THEN Thrown
               ELSE IF payload.type = "null" THEN Thrown
               ELSE IF "exp" \in payload.has /\ payload.exp # 0 /\ payload.exp < nowS
                 THEN Returned(FALSE, NoPayload)
               ELSE Returned(TRUE, payload)

\* Variant of verifyJWT without the catch clause.
verifyJWTText_NoCatch(token, secret, nowS) == verifyJWTTry(token, secret, nowS)

\* Variant of verifyJWT that refuses a token in the second of its expiry.
verifyJWTText_ExpiresEarly(token, secret, nowS) ==
    LET tried == verifyJWTTry(token, secret, nowS)
    IN IF tried.threw THEN Returned(FALSE, NoPayload)
       ELSE IF tried.valid /\ "exp" \in tried.payload.has /\ tried.payload.exp <= nowS
         THEN Returned(FALSE, NoPayload)
       ELSE tried

\* Variant of verifyJWT whose signature covers the payload only.
verifyJWTText_HeaderUnsigned(token, secret, nowS) ==
    IF Len(token) # 3 THEN Returned(FALSE, NoPayload)
    ELSE LET tried == verifyJWTTry(<<base64UrlEncode(JwtHeader), token[2],
                                     [token[3] EXCEPT !.over =
                                        IF Len(@) = 2
                                          THEN <<base64UrlEncode(JwtHeader), @[2]>>
                                          ELSE @]>>,
                                   secret, nowS)
         IN IF tried.threw THEN Returned(FALSE, NoPayload) ELSE tried

\* verifyJWT: the try block, with catch { return { valid: false } }.
verifyJWTText(token, secret, nowS) ==
    LET tried == verifyJWTTry(token, secret, nowS)
    IN IF tried.threw THEN Returned(FALSE, NoPayload) ELSE tried

\* DeviceStore.verifyToken on the text of a token.
verifyTokenText(data, token, nowS) ==
    IF token \in data.revokedTokens
      THEN [threw |-> FALSE, valid |-> FALSE, deviceId |-> NoId]
    ELSE LET result == verifyJWTText(token, data.jwtSecret, nowS)
         IN IF result.threw
              THEN [threw |-> TRUE, valid |-> FALSE, deviceId |-> NoId]
            ELSE IF ~result.valid \/ result.payload.type = "undefined"
              THEN [threw |-> FALSE, valid |-> FALSE, deviceId |-> NoId]
            ELSE IF "deviceId" \notin result.payload.has
                    \/ result.payload.deviceId \notin DOMAIN data.devices
              THEN [threw |-> FALSE, valid |-> FALSE, deviceId |-> NoId]
            ELSE [threw |-> FALSE, valid |-> TRUE,
                  deviceId |-> result.payload.deviceId]

\* Nothing put to the codec yet.
NoProbe ==
    [stage |-> "none", origin |-> "none", deviceId |-> NoId, token |-> <<>>,
     key |-> "", at |-> 0, jwt |-> Returned(FALSE, NoPayload),
     verdict |-> [threw |-> FALSE, valid |-> FALSE, deviceId |-> NoId],
     code |-> NoCode]

(***************************************************************************)
(* Access-code generator                                                   *)
(***************************************************************************)
\* crypto.createHash("sha256").update(secret).digest("hex").substring(0, 12):
\* the first 12 hexadecimal digits of the SHA-256 of each secret of the
\* exploration, as numbers 0..15.
Sha256Prefix(secret) ==
    CASE secret = "secretA" -> <<4, 1, 1, 1, 2, 0, 9, 1, 15, 6, 3, 11>>   \* 41112091f63b
      [] secret = "secret149335" -> <<11, 12, 15, 8, 0, 5, 14, 3, 2, 15, 3, 11>>   \* bcf805e32f3b
      [] secret = "secretB" -> <<7, 11, 15, 5, 14, 6, 8, 11, 4, 14, 6, 12>>   \* 7bf5e68b4e6c
      [] secret = "secretC" -> <<1, 12, 7, 11, 5, 11, 4, 11, 4, 6, 4, 6>>   \* 1c7b5b4b4646

\* parseInt(hex, 16) % modulus.  The 48-bit number is reduced digit by digit,
\* which gives the same remainder.
RECURSIVE parseIntMod(_, _)
parseIntMod(hex, modulus) ==
    IF hex = <<>> THEN 0
    ELSE (parseIntMod(SubSeq(hex, 1, Len(hex) - 1), modulus) * 16 + hex[Len(hex)])
           % modulus

\* num.toString().padStart(6, "0") as a sequence of decimal digits.
PadStart6(num) == [i \in 1..6 |-> (num \div (10 ^ (6 - i))) % 10]

\* num.toString(): the decimal digits of a number, without leading zeros.
RECURSIVE toDecimal(_)
toDecimal(num) ==
    IF num < 10 THEN <<num>> ELSE Append(toDecimal(num \div 10), num % 10)

\* Variant of getAccessCode without padStart.
getAccessCode_NoPad(data) ==
    toDecimal(parseIntMod(Sha256Prefix(data.jwtSecret), CODE_MODULUS))

getAccessCode(data) ==
    PadStart6(parseIntMod(Sha256Prefix(data.jwtSecret), CODE_MODULUS))

(***************************************************************************)
(* Records of the store                                                    *)
(***************************************************************************)
Put(f, k, v) == [x \in DOMAIN f \cup {k} |-> IF x = k THEN v ELSE f[x]]
Remove(f, k) == [x \in DOMAIN f \ {k} |-> f[x]]

createEmpty(secret) ==
    [devices |-> <<>>, pendingRequests |-> <<>>, revokedTokens |-> {},
     jwtSecret |-> secret]

(***************************************************************************)
(* The store file                                                          *)
(***************************************************************************)
\* A file that JSON.stringify(data) was written to; a file JSON.parse
\* refuses.  A file without jwtSecret has the empty secret.
NoSecret == ""
\* The memory of a second process where there is none.
NoStandby == [jwtSecret |-> NoSecret]
\* No manager of child processes has been constructed.
NoService == [process |-> 0]
File(content) == [kind |-> "json", content |-> content]
Unparsable == [kind |-> "unparsable", content |-> createEmpty(NoSecret)]

\* load(): the data read from the file, the file afterwards, and whether
\* generateSecret() was called.  createEmpty() saves what it makes; a secret
\* made for a file that lacks one is not saved.
load(file, freshSecret) ==
    IF file.kind = "json"
      THEN [data |-> [file.content EXCEPT
                        !.jwtSecret = IF @ = NoSecret THEN freshSecret ELSE @],
            disk |-> file,
            drew |-> file.content.jwtSecret = NoSecret]
      ELSE [data |-> createEmpty(freshSecret),
            disk |-> File(createEmpty(freshSecret)),
            drew |-> TRUE]

(***************************************************************************)
(* Device registry and token verification (both stores)                    *)
(***************************************************************************)
addDevice(data, device) ==
    [data EXCEPT !.devices = Put(data.devices, device.id, device)]

updateLastSeen(data, deviceId, ip, nowMs) ==
    IF deviceId \in DOMAIN data.devices
      THEN [data EXCEPT !.devices[deviceId].lastSeenAt = nowMs,
                        !.devices[deviceId].ip = ip]
      ELSE data

getDevice(data, deviceId) ==
    IF deviceId \in DOMAIN data.devices THEN data.devices[deviceId] ELSE NoDevice

removeDevice(data, deviceId) ==
    IF deviceId \in DOMAIN data.devices
      THEN [data |-> [data EXCEPT !.devices = Remove(data.devices, deviceId)],
            result |-> TRUE]
      ELSE [data |-> data, result |-> FALSE]

\* { ...device, ...updates }: the fields of updates replace the device's.
updateDevice(data, deviceId, updates) ==
    IF deviceId \in DOMAIN data.devices
      THEN [data EXCEPT !.devices[deviceId] =
              [k \in DOMAIN data.devices[deviceId] \cup DOMAIN updates |->
                  IF k \in DOMAIN updates THEN updates[k]
                  ELSE data.devices[deviceId][k]]]
      ELSE data

revokeDevice(data, deviceId) == removeDevice(data, deviceId)

\* Variant of revokeAllExcept that counts every device of the registry.
revokeAllExcept_CountsAll(data, keepDeviceId) ==
    LET others == DOMAIN data.devices \ {keepDeviceId}
        kept == [id \in DOMAIN data.devices \cap {keepDeviceId} |-> data.devices[id]]
    IN [data |-> IF others = {} THEN data ELSE [data EXCEPT !.devices = kept],
        result |-> Cardinality(DOMAIN data.devices)]

revokeAllExcept(data, keepDeviceId) ==
    LET others == DOMAIN data.devices \ {keepDeviceId}
    IN [data |-> IF others = {} THEN data
                 ELSE [data EXCEPT !.devices =
                         [id \in DOMAIN data.devices \ others |-> data.devices[id]]],
        result |-> Cardinality(others)]

revokeToken(data, token) ==
    IF token \in data.revokedTokens
      THEN data
      ELSE [data EXCEPT !.revokedTokens = data.revokedTokens \cup {token}]

\* Variant of verifyToken that does not look the device up.
verifyToken_NoDeviceCheck(data, token, nowMs) ==
    IF token \in data.revokedTokens
      THEN [valid |-> FALSE, deviceId |-> NoId]
    ELSE LET result == verifyJWT(token, data.jwtSecret, nowMs)
         IN IF ~result.valid
              THEN [valid |-> FALSE, deviceId |-> NoId]
            ELSE [valid |-> TRUE, deviceId |-> result.deviceId]

verifyToken(data, token, nowMs) ==
    IF token \in data.revokedTokens
      THEN [valid |-> FALSE, deviceId |-> NoId]
    ELSE LET result == verifyJWT(token, data.jwtSecret, nowMs)
         IN IF ~result.valid
              THEN [valid |-> FALSE, deviceId |-> NoId]
            ELSE IF result.deviceId \notin DOMAIN data.devices
              THEN [valid |-> FALSE, deviceId |-> NoId]
            ELSE [valid |-> TRUE, deviceId |-> result.deviceId]

(***************************************************************************)
(* Pending requests: scripts/device-store                                  *)
(***************************************************************************)
\* Variant of isRequestExpired that already expires a request at exactly
\* the end of the window.
isRequestExpired_AtWindowEnd(request, nowMs) ==
    IF request.status # "pending"
      THEN FALSE
      ELSE nowMs - request.createdAt >= REQUEST_EXPIRY_MS

isRequestExpired(request, nowMs) ==
    IF request.status # "pending"
      THEN FALSE
      ELSE nowMs - request.createdAt > REQUEST_EXPIRY_MS

\* Variant of expireRequest that leaves resolvedAt unset.
expireRequest_NoResolvedAt(data, requestId, nowMs) ==
    IF requestId \in DOMAIN data.pendingRequests
       /\ data.pendingRequests[requestId].status = "pending"
      THEN [data EXCEPT !.pendingRequests[requestId].status = "expired"]
      ELSE data

expireRequest(data, requestId, nowMs) ==
    IF requestId \in DOMAIN data.pendingRequests
       /\ data.pendingRequests[requestId].status = "pending"
      THEN [data EXCEPT !.pendingRequests[requestId].status = "expired",
                        !.pendingRequests[requestId].resolvedAt = nowMs]
      ELSE data

\* Variant of cleanupExpiredRequests that measures the 24 hours from the
\* creation of the request.
cleanupExpiredRequests_ByCreatedAt(data, nowMs) ==
    LET pr == data.pendingRequests
        marked == [id \in DOMAIN pr |->
                     IF isRequestExpired(pr[id], nowMs)
                       THEN [pr[id] EXCEPT !.status = "expired", !.resolvedAt = nowMs]
                       ELSE pr[id]]
        cutoff == nowMs - RETENTION_MS
        purged == {id \in DOMAIN marked :
                     /\ marked[id].status # "pending"
                     /\ marked[id].createdAt < cutoff}
    IN [data EXCEPT !.pendingRequests = [id \in DOMAIN marked \ purged |-> marked[id]]]

cleanupExpiredRequests(data, nowMs) ==
    LET pr == data.pendingRequests
        marked == [id \in DOMAIN pr |->
                     IF isRequestExpired(pr[id], nowMs)
                       THEN [pr[id] EXCEPT !.status = "expired", !.resolvedAt = nowMs]
                       ELSE pr[id]]
        cutoff == nowMs - RETENTION_MS
        purged == {id \in DOMAIN marked :
                     /\ marked[id].status # "pending"
                     /\ marked[id].resolvedAt # NoTime
                     /\ marked[id].resolvedAt # 0
                     /\ marked[id].resolvedAt < cutoff}
    IN [data EXCEPT !.pendingRequests = [id \in DOMAIN marked \ purged |-> marked[id]]]

NewRequest(id, device, ip, nowMs) ==
    [id |-> id, device |-> device, ip |-> ip, status |-> "pending",
     createdAt |-> nowMs, resolvedAt |-> NoTime, deviceId |-> NoId,
     token |-> NoToken]

createPendingRequestWeb(data, device, ip, nowMs, id) ==
    LET cleaned == cleanupExpiredRequests(data, nowMs)
        request == NewRequest(id, device, ip, nowMs)
    IN [data |-> [cleaned EXCEPT !.pendingRequests =
                     Put(cleaned.pendingRequests, id, request)],
        result |-> request]

getPendingRequestWeb(data, requestId, nowMs) ==
    IF requestId \notin DOMAIN data.pendingRequests
      THEN [data |-> data, result |-> NoRequest]
    ELSE IF isRequestExpired(data.pendingRequests[requestId], nowMs)
      THEN LET expired == expireRequest(data, requestId, nowMs)
           IN [data |-> expired, result |-> expired.pendingRequests[requestId]]
    ELSE [data |-> data, result |-> data.pendingRequests[requestId]]

\* Array.prototype.sort with (a, b) => b.createdAt - a.createdAt: a stable
\* sort, newest first, of the values in insertion order.
RECURSIVE InsertByCreatedAtDesc(_, _)
InsertByCreatedAtDesc(sorted, r) ==
    IF sorted = <<>> THEN <<r>>
    ELSE IF Head(sorted).createdAt >= r.createdAt
      THEN <<Head(sorted)>> \o InsertByCreatedAtDesc(Tail(sorted), r)
    ELSE <<r>> \o sorted

RECURSIVE SortByCreatedAtDesc(_)
SortByCreatedAtDesc(seq) ==
    IF seq = <<>> THEN <<>>
    ELSE InsertByCreatedAtDesc(SortByCreatedAtDesc(SubSeq(seq, 1, Len(seq) - 1)),
                               seq[Len(seq)])

\* Object.values(): the requests in insertion order (ids are drawn in
\* increasing order in the model).
RECURSIVE ValuesInOrder(_, _)
ValuesInOrder(f, ids) ==
    IF ids = {} THEN <<>>
    ELSE LET lo == CHOOSE i \in ids : \A j \in ids : i <= j
         IN <<f[lo]>> \o ValuesInOrder(f, ids \ {lo})

listPendingRequestsWeb(data, nowMs) ==
    LET cleaned == cleanupExpiredRequests(data, nowMs)
        pr == cleaned.pendingRequests
        pendingIds == {id \in DOMAIN pr : pr[id].status = "pending"}
    IN [data |-> cleaned,
        result |-> SortByCreatedAtDesc(ValuesInOrder(pr, pendingIds))]

\* Variant of approveRequest without the expiry test.
approveRequestWeb_NoExpiry(data, requestId, nowMs, deviceId) ==
    IF requestId \notin DOMAIN data.pendingRequests
       \/ data.pendingRequests[requestId].status # "pending"
      THEN [data |-> data, result |-> NoRequest]
    ELSE LET request == data.pendingRequests[requestId]
             token == generateJWT(deviceId, data.jwtSecret, TOKEN_DAYS, nowMs)
             deviceInfo == [id |-> deviceId,
                            name |-> request.device.name,
                            platform |-> request.device.platform,
                            browser |-> request.device.browser,
                            createdAt |-> nowMs,
                            lastSeenAt |-> nowMs,
                            ip |-> request.ip,
                            isHost |-> "false"]
             approved == [request EXCEPT !.status = "approved",
                                         !.resolvedAt = nowMs,
                                         !.deviceId = deviceId,
                                         !.token = token]
         IN [data |-> [data EXCEPT !.devices = Put(data.devices, deviceId, deviceInfo),
                                   !.pendingRequests[requestId] = approved],
             result |-> approved]

\* Variant of approveRequest that records a token signed for another device.
approveRequestWeb_TokenOfOtherDevice(data, requestId, nowMs, deviceId) ==
    LET plain == approveRequestWeb_NoExpiry(data, requestId, nowMs, deviceId)
        other == generateJWT(deviceId + 1, data.jwtSecret, TOKEN_DAYS, nowMs)
    IN IF requestId \notin DOMAIN data.pendingRequests
          \/ data.pendingRequests[requestId].status # "pending"
         THEN [data |-> data, result |-> NoRequest]
       ELSE IF isRequestExpired(data.pendingRequests[requestId], nowMs)
         THEN [data |-> expireRequest(data, requestId, nowMs), result |-> NoRequest]
       ELSE [data |-> [plain.data EXCEPT !.pendingRequests[requestId].token = other],
             result |-> [plain.result EXCEPT !.token = other]]

approveRequestWeb(data, requestId, nowMs, deviceId) ==
    IF requestId \notin DOMAIN data.pendingRequests
       \/ data.pendingRequests[requestId].status # "pending"
      THEN [data |-> data, result |-> NoRequest]
    ELSE IF isRequestExpired(data.pendingRequests[requestId], nowMs)
      THEN [data |-> expireRequest(data, requestId, nowMs), result |-> NoRequest]
    ELSE LET request == data.pendingRequests[requestId]
             token == generateJWT(deviceId, data.jwtSecret, TOKEN_DAYS, nowMs)
             deviceInfo == [id |-> deviceId,
                            name |-> request.device.name,
                            platform |-> request.device.platform,
                            browser |-> request.device.browser,
                            createdAt |-> nowMs,
                            lastSeenAt |-> nowMs,
                            ip |-> request.ip,
                            isHost |-> "false"]
             approved == [request EXCEPT !.status = "approved",
                                         !.resolvedAt = nowMs,
                                         !.deviceId = deviceId,
                                         !.token = token]
         IN [data |-> [data EXCEPT !.devices = Put(data.devices, deviceId, deviceInfo),
                                   !.pendingRequests[requestId] = approved],
             result |-> approved]

\* Variant of denyRequest that does not look at the request's status.
denyRequestWeb_AnyStatus(data, requestId, nowMs) ==
    IF requestId \notin DOMAIN data.pendingRequests
      THEN [data |-> data, result |-> NoRequest]
    ELSE LET denied == [data.pendingRequests[requestId] EXCEPT
                           !.status = "denied", !.resolvedAt = nowMs]
         IN [data |-> [data EXCEPT !.pendingRequests[requestId] = denied],
             result |-> denied]

denyRequestWeb(data, requestId, nowMs) ==
    IF requestId \notin DOMAIN data.pendingRequests
       \/ data.pendingRequests[requestId].status # "pending"
      THEN [data |-> data, result |-> NoRequest]
    ELSE LET denied == [data.pendingRequests[requestId] EXCEPT
                           !.status = "denied", !.resolvedAt = nowMs]
         IN [data |-> [data EXCEPT !.pendingRequests[requestId] = denied],
             result |-> denied]

(***************************************************************************)
(* Pending requests: electron/main/services/device-store                   *)
(***************************************************************************)
listPendingRequestsElectron(data, nowMs) ==
    LET pr == data.pendingRequests
        validIds == {id \in DOMAIN pr :
                       pr[id].status = "pending"
                       /\ nowMs - pr[id].createdAt < LIST_WINDOW_MS}
    IN [data |-> data, result |-> ValuesInOrder(pr, validIds)]

createPendingRequestElectron(data, device, ip, nowMs, id) ==
    LET request == NewRequest(id, device, ip, nowMs)
    IN [data |-> [data EXCEPT !.pendingRequests =
                     Put(data.pendingRequests, id, request)],
        result |-> request]

getPendingRequestElectron(data, requestId, nowMs) ==
    IF requestId \notin DOMAIN data.pendingRequests
      THEN [data |-> data, result |-> NoRequest]
      ELSE [data |-> data, result |-> data.pendingRequests[requestId]]

\* Variant of approveRequest that does not look at the request's status.
approveRequestElectron_AnyStatus(data, requestId, nowMs, deviceId) ==
    IF requestId \notin DOMAIN data.pendingRequests
      THEN [data |-> data, result |-> NoRequest]
    ELSE LET request == data.pendingRequests[requestId]
             token == generateJWT(deviceId, data.jwtSecret, TOKEN_DAYS, nowMs)
             device == [id |-> deviceId,
                        name |-> request.device.name,
                        platform |-> request.device.platform,
                        browser |-> request.device.browser,
                        createdAt |-> nowMs,
                        lastSeenAt |-> nowMs,
                        ip |-> request.ip,
                        isHost |-> "absent"]
             approved == [request EXCEPT !.status = "approved",
                                         !.resolvedAt = nowMs,
                                         !.deviceId = deviceId,
                                         !.token = token]
         IN [data |-> [data EXCEPT !.devices = Put(data.devices, deviceId, device),
                                   !.pendingRequests[requestId] = approved],
             result |-> approved]

approveRequestElectron(data, requestId, nowMs, deviceId) ==
    IF requestId \notin DOMAIN data.pendingRequests
       \/ data.pendingRequests[requestId].status # "pending"
      THEN [data |-> data, result |-> NoRequest]
    ELSE LET request == data.pendingRequests[requestId]
             token == generateJWT(deviceId, data.jwtSecret, TOKEN_DAYS, nowMs)
             device == [id |-> deviceId,
                        name |-> request.device.name,
                        platform |-> request.device.platform,
                        browser |-> request.device.browser,
                        createdAt |-> nowMs,
                        lastSeenAt |-> nowMs,
                        ip |-> request.ip,
                        isHost |-> "absent"]
             approved == [request EXCEPT !.status = "approved",
                                         !.resolvedAt = nowMs,
                                         !.deviceId = deviceId,
                                         !.token = token]
         IN [data |-> [data EXCEPT !.devices = Put(data.devices, deviceId, device),
                                   !.pendingRequests[requestId] = approved],
             result |-> approved]

denyRequestElectron(data, requestId, nowMs) ==
    IF requestId \notin DOMAIN data.pendingRequests
       \/ data.pendingRequests[requestId].status # "pending"
      THEN [data |-> data, result |-> NoRequest]
    ELSE LET denied == [data.pendingRequests[requestId] EXCEPT
                           !.status = "denied", !.resolvedAt = nowMs]
         IN [data |-> [data EXCEPT !.pendingRequests[requestId] = denied],
             result |-> denied]

(***************************************************************************)
(* State                                                                   *)
(***************************************************************************)
VARIABLES
    gateway,        \* "legacy" | "plugin" | "electron": the HTTP front end
    store,          \* "web" | "electron": the DeviceStore behind it
    authCodeFile,   \* content of .auth-code (NoCode when the file is absent)
    now,            \* Date.now()
    ticks,          \* number of clock advances so far
    data,           \* DeviceStoreData: devices, pendingRequests, revokedTokens, jwtSecret
    deviceIdsDrawn, \* number of generateDeviceId() results so far
    requestIdsDrawn,\* number of request ids drawn so far
    held,           \* tokens each caller has received in a response
    filer,          \* the caller that filed each request (and so knows its id)
    approvals,      \* history: the approve calls that succeeded, in order
    probe,          \* the input a step-by-step computation is working on: the token
                    \* put to the codec, the address received, the call awaiting its body
    disk,           \* content of the .devices.json file
    secretsDrawn,   \* number of generateSecret() results so far
    faults,         \* number of times the file was damaged from outside
    standby,        \* this.data of the second process on the same file, if any
    service         \* a manager of child processes (TunnelManager, OpenCodeProcess)
                    \* and the child processes it has spawned

vars == <<gateway, store, authCodeFile, now, ticks, data, deviceIdsDrawn,
          requestIdsDrawn, held, filer, approvals, probe, disk, secretsDrawn,
          faults, standby, service>>

(***************************************************************************)
(* Callers and what they can send                                          *)
(***************************************************************************)
Callers == {"local", "remote"}

Loopback == <<"127.0.0.1">>
MappedLoopback == <<"::ffff:", "127.0.0.1">>
LanAddress == <<"192.168.1.50">>
PublicAddress == <<"203.0.113.9">>

\* The peer address of the caller's connection: its network origin.
PeerAddress(c) == IF c = "local" THEN MappedLoopback ELSE LanAddress
OriginIsLocal(c) == c = "local"

\* Values of the X-Forwarded-For header a caller sends, split at commas.
ForwardedValues(c) ==
    IF c = "local" THEN {NoHeader} ELSE {NoHeader, <<Loopback, PublicAddress>>}

LaunchCode == <<1, 2, 3, 4, 5, 6>>
WrongCode == <<0, 0, 0, 0, 0, 0>>

\* The device description a caller's page sends in a body; the local page
\* of the model sends none, so the handlers' defaults apply.
BodyDevice(c) ==
    IF c = "local" THEN NoBodyDevice
    ELSE [name |-> "Pixel", platform |-> "Android", browser |-> "Chrome"]

ForgedToken ==
    LET iat == StartTime \div 1000
        exp == iat + TOKEN_DAYS * 24 * 60 * 60
    IN [deviceId |-> 1, iat |-> iat, exp |-> exp, sig |-> <<"guess", 1, iat, exp>>]

\* Authorization headers a caller can send: none, a token it received, a
\* token it made up.
Presentable(c) == {NoToken, ForgedToken} \cup held[c]

(***************************************************************************)
(* Helpers of the gateways                                                 *)
(***************************************************************************)
getClientIp(peer, forwarded) ==
    IF forwarded # NoHeader THEN Head(forwarded)
    ELSE IF peer = <<>> THEN <<"unknown">>
    ELSE peer

\* Variant of isLocalhost that compares the address as received.
isLocalhost_NoNormalize(ip) ==
    ip \in {<<"127.0.0.1">>, <<"::1">>, <<"localhost">>}

isLocalhost(ip) ==
    LET normalizedIp == IF Len(ip) > 0 /\ Head(ip) = "::ffff:" THEN Tail(ip) ELSE ip
    IN normalizedIp \in {<<"127.0.0.1">>, <<"::1">>, <<"localhost">>}

\* proxyToAuthApi: the X-Forwarded-For header the Electron server receives.
proxyToAuthApi(peer, forwarded) == <<getClientIp(peer, forwarded)>>

OrDefault(value, default) == IF value = "" THEN default ELSE value

\* The code a handler compares the caller's code against.
ValidCode(d) ==
    IF gateway = "legacy" THEN authCodeFile ELSE getAccessCode(d)

\* JSON bodies a caller can send: text that does not parse, or an object.
Malformed == [json |-> FALSE]
CodeBodies(c) ==
    {Malformed} \cup
    {[json |-> TRUE, code |-> code, device |-> BodyDevice(c)] :
        code \in {ValidCode(data), WrongCode, NoCode}}
DeviceBodies(c) == {Malformed, [json |-> TRUE, device |-> BodyDevice(c)]}

\* The name of a rename body: absent, not a string, or a string given by
\* its pieces (white space and words).
WhiteSpace == {" ", "\t"}
NoName == [type |-> "undefined", text |-> <<>>]
NumberName == [type |-> "number", text |-> <<>>]
StringName(text) == [type |-> "string", text |-> text]

\* The string made of the given pieces.
Text(text) ==
    CASE text = <<"Mac">> -> "Mac"
      [] text = <<"My", " ", "Mac">> -> "My Mac"
      [] text = <<>> -> ""
      [] OTHER -> "?"

InvalidNames == {NoName, NumberName, StringName(<<>>), StringName(<<" ">>),
                 StringName(<<" ", "\t", " ">>)}
ValidNames == {StringName(<<"Mac">>), StringName(<<" ", "My", " ", "Mac", "\t">>)}

\* What a handler does: the HTTP status and the fields of its JSON answer,
\* the store after it, and whether it drew a new device or request id.
Outcome(status, d) ==
    [status |-> status, data |-> d, token |-> NoToken, deviceId |-> NoId,
     requestId |-> NoId, reqStatus |-> "", device |-> NoDevice,
     requests |-> <<>>, revokedCount |-> 0, code |-> NoCode,
     drewDevice |-> FALSE, drewRequest |-> FALSE]

(***************************************************************************)
(* Store dispatch                                                          *)
(***************************************************************************)
createPendingRequest(d, device, ip, nowMs, id) ==
    IF store = "web" THEN createPendingRequestWeb(d, device, ip, nowMs, id)
    ELSE createPendingRequestElectron(d, device, ip, nowMs, id)

getPendingRequest(d, requestId, nowMs) ==
    IF store = "web" THEN getPendingRequestWeb(d, requestId, nowMs)
    ELSE getPendingRequestElectron(d, requestId, nowMs)

listPendingRequests(d, nowMs) ==
    IF store = "web" THEN listPendingRequestsWeb(d, nowMs)
    ELSE listPendingRequestsElectron(d, nowMs)

approveRequest(d, requestId, nowMs, deviceId) ==
    IF store = "web" THEN approveRequestWeb(d, requestId, nowMs, deviceId)
    ELSE approveRequestElectron(d, requestId, nowMs, deviceId)

denyRequest(d, requestId, nowMs) ==
    IF store = "web" THEN denyRequestWeb(d, requestId, nowMs)
    ELSE denyRequestElectron(d, requestId, nowMs)

(***************************************************************************)
(* Gateway handlers, as functions of the store, the clock and the request  *)
(***************************************************************************)
\* The bearer-token check shared by the authenticated handlers:
\* extractBearerToken, then deviceStore.verifyToken.
Authenticated(d, nowMs, token) ==
    token # NoToken /\ verifyToken(d, token, nowMs).valid

\* Creation of a device and its token by verify-code and local-auto-auth.
IssueDevice(d, nowMs, deviceId, clientIp, device, defaultName, isHost) ==
    LET token == generateJWT(deviceId, d.jwtSecret, TOKEN_DAYS, nowMs)
        deviceInfo == [id |-> deviceId,
                       name |-> OrDefault(device.name, defaultName),
                       platform |-> OrDefault(device.platform, "Unknown"),
                       browser |-> OrDefault(device.browser, "Unknown"),
                       createdAt |-> nowMs,
                       lastSeenAt |-> nowMs,
                       ip |-> clientIp,
                       isHost |-> isHost]
    IN [Outcome(200, addDevice(d, deviceInfo)) EXCEPT
          !.token = token, !.deviceId = deviceId, !.device = deviceInfo,
          !.drewDevice = TRUE]

\* Variant of the verify handler that creates the device without the host flag.
VerifyHandler_NotHost(d, nowMs, deviceId, peer, forwarded, body) ==
    LET clientIp == getClientIp(peer, forwarded)
    IN IF ~isLocalhost(clientIp) THEN Outcome(403, d)
       ELSE IF ~body.json THEN Outcome(400, d)
       ELSE IF authCodeFile = NoCode THEN Outcome(500, d)
       ELSE IF body.code = authCodeFile
         THEN IssueDevice(d, nowMs, deviceId, clientIp, body.device,
                          "Unknown Device", "absent")
       ELSE Outcome(401, d)

\* POST /api/auth/verify (legacy vite.config middleware)
VerifyHandler(d, nowMs, deviceId, peer, forwarded, body) ==
    LET clientIp == getClientIp(peer, forwarded)
    IN IF ~isLocalhost(clientIp) THEN Outcome(403, d)
       ELSE IF ~body.json THEN Outcome(400, d)
       ELSE IF authCodeFile = NoCode THEN Outcome(500, d)
       ELSE IF body.code = authCodeFile
         THEN IssueDevice(d, nowMs, deviceId, clientIp, body.device,
                          "Unknown Device", "true")
       ELSE Outcome(401, d)

\* POST /api/auth/local-auth (legacy middleware and api-middleware plugin)
LocalAuthHandler(d, nowMs, deviceId, peer, forwarded, body) ==
    LET clientIp == getClientIp(peer, forwarded)
    IN IF ~isLocalhost(clientIp) THEN Outcome(403, d)
       ELSE IF ~body.json THEN Outcome(400, d)
       ELSE IssueDevice(d, nowMs, deviceId, clientIp, body.device,
                        "Local Machine", "absent")

\* Variant of the request-access handler that files a request for any code.
RequestAccessHandler_AnyCode(d, nowMs, id, peer, forwarded, body) ==
    LET clientIp == getClientIp(peer, forwarded)
    IN IF ~body.json THEN Outcome(400, d)
       ELSE LET snapshot == [name |-> OrDefault(body.device.name, "Unknown Device"),
                             platform |-> OrDefault(body.device.platform, "Unknown"),
                             browser |-> OrDefault(body.device.browser, "Unknown")]
                created == createPendingRequest(d, snapshot, clientIp, nowMs, id)
            IN [Outcome(200, created.data) EXCEPT
                  !.requestId = created.result.id, !.drewRequest = TRUE]

\* POST /api/auth/request-access.  The Electron server is reached through
\* the Vite auth proxy, which connects from the loopback interface.
RequestAccessHandler(d, nowMs, id, peer, forwarded, body) ==
    LET clientIp == IF gateway = "electron"
                      THEN getClientIp(Loopback, proxyToAuthApi(peer, forwarded))
                      ELSE getClientIp(peer, forwarded)
    IN IF ~body.json THEN Outcome(400, d)
       ELSE IF gateway # "electron" /\ ValidCode(d) = NoCode THEN Outcome(500, d)
       ELSE IF body.code # ValidCode(d) THEN Outcome(401, d)
       ELSE LET snapshot == [name |-> OrDefault(body.device.name, "Unknown Device"),
                             platform |-> OrDefault(body.device.platform, "Unknown"),
                             browser |-> OrDefault(body.device.browser, "Unknown")]
                created == createPendingRequest(d, snapshot, clientIp, nowMs, id)
            IN [Outcome(200, created.data) EXCEPT
                  !.requestId = created.result.id, !.drewRequest = TRUE]

\* Variant of the check-status handler that answers with the status alone.
CheckStatusHandler_StatusOnly(d, nowMs, requestId) ==
    IF requestId = NoId THEN [Outcome(200, d) EXCEPT !.reqStatus = "not_found"]
    ELSE LET got == getPendingRequest(d, requestId, nowMs)
         IN IF got.result.id = NoId
              THEN [Outcome(200, got.data) EXCEPT !.reqStatus = "not_found"]
            ELSE [Outcome(200, got.data) EXCEPT !.reqStatus = got.result.status]

\* GET /api/auth/check-status?requestId=...
CheckStatusHandler(d, nowMs, requestId) ==
    IF requestId = NoId THEN [Outcome(200, d) EXCEPT !.reqStatus = "not_found"]
    ELSE LET got == getPendingRequest(d, requestId, nowMs)
             request == got.result
         IN IF request.id = NoId
              THEN [Outcome(200, got.data) EXCEPT !.reqStatus = "not_found"]
            ELSE IF request.status = "approved"
              THEN [Outcome(200, got.data) EXCEPT
                      !.reqStatus = "approved",
                      !.token = request.token,
                      !.deviceId = request.deviceId]
            ELSE [Outcome(200, got.data) EXCEPT !.reqStatus = request.status]

\* GET /api/admin/pending-requests
ListPendingHandler(d, nowMs, peer, forwarded, token) ==
    IF gateway # "electron" /\ ~Authenticated(d, nowMs, token) THEN Outcome(401, d)
    ELSE IF gateway # "electron" /\ ~isLocalhost(getClientIp(peer, forwarded))
      THEN Outcome(403, d)
    ELSE LET listed == listPendingRequests(d, nowMs)
         IN [Outcome(200, listed.data) EXCEPT !.requests = listed.result]

\* POST /api/admin/approve
\* The approve handler from the point where `await parseBody(req)` resolves.
ApproveAfterBody(d, nowMs, deviceId, body) ==
    IF ~body.json THEN Outcome(400, d)
    ELSE IF body.requestId = NoId THEN Outcome(400, d)
    ELSE LET approved == approveRequest(d, body.requestId, nowMs, deviceId)
         IN IF approved.result.id = NoId THEN Outcome(404, approved.data)
            ELSE [Outcome(200, approved.data) EXCEPT
                    !.device = getDevice(approved.data, approved.result.deviceId),
                    !.deviceId = approved.result.deviceId,
                    !.requestId = body.requestId,
                    !.drewDevice = TRUE]

\* The approve and deny handlers up to `await parseBody(req)`: the status
\* they answer with at once, or 0 when they go on to read the body.
AdminBeforeBody(d, nowMs, peer, forwarded, token) ==
    IF gateway # "electron" /\ ~Authenticated(d, nowMs, token) THEN 401
    ELSE IF gateway # "electron" /\ ~isLocalhost(getClientIp(peer, forwarded))
      THEN 403
    ELSE 0

ApproveHandler(d, nowMs, deviceId, peer, forwarded, token, body) ==
    IF AdminBeforeBody(d, nowMs, peer, forwarded, token) # 0
      THEN Outcome(AdminBeforeBody(d, nowMs, peer, forwarded, token), d)
    ELSE ApproveAfterBody(d, nowMs, deviceId, body)

\* POST /api/admin/deny
\* The deny handler from the point where `await parseBody(req)` resolves.
DenyAfterBody(d, nowMs, body) ==
    IF ~body.json THEN Outcome(400, d)
    ELSE IF body.requestId = NoId THEN Outcome(400, d)
    ELSE LET denied == denyRequest(d, body.requestId, nowMs)
         IN IF denied.result.id = NoId THEN Outcome(404, denied.data)
            ELSE [Outcome(200, denied.data) EXCEPT !.requestId = body.requestId]

DenyHandler(d, nowMs, peer, forwarded, token, body) ==
    IF AdminBeforeBody(d, nowMs, peer, forwarded, token) # 0
      THEN Outcome(AdminBeforeBody(d, nowMs, peer, forwarded, token), d)
    ELSE DenyAfterBody(d, nowMs, body)

\* GET /api/auth/validate
ValidateHandler(d, nowMs, peer, forwarded, token) ==
    IF ~Authenticated(d, nowMs, token) THEN Outcome(401, d)
    ELSE LET result == verifyToken(d, token, nowMs)
             seen == IF gateway = "electron" THEN d
                     ELSE updateLastSeen(d, result.deviceId,
                                         getClientIp(peer, forwarded), nowMs)
         IN [Outcome(200, seen) EXCEPT
               !.deviceId = result.deviceId,
               !.device = getDevice(seen, result.deviceId)]

\* Variant of the logout handler that revokes the token and keeps the device.
LogoutHandler_KeepsDevice(d, nowMs, token) ==
    IF ~Authenticated(d, nowMs, token) THEN Outcome(401, d)
    ELSE Outcome(200, IF gateway = "legacy" THEN revokeToken(d, token) ELSE d)

\* POST /api/auth/logout (legacy middleware and Electron server)
LogoutHandler(d, nowMs, token) ==
    IF ~Authenticated(d, nowMs, token) THEN Outcome(401, d)
    ELSE LET result == verifyToken(d, token, nowMs)
             revoked == IF gateway = "legacy" THEN revokeToken(d, token) ELSE d
         IN Outcome(200, removeDevice(revoked, result.deviceId).data)

\* GET /api/auth/code.  The legacy middleware reads the .auth-code file, the
\* plugin asks the store, both after checking the token; the Electron server
\* asks the store at once.
CodeHandler(d, nowMs, token) ==
    IF gateway = "electron"
      THEN [Outcome(200, d) EXCEPT !.code = getAccessCode(d)]
    ELSE IF ~Authenticated(d, nowMs, token) THEN Outcome(401, d)
    ELSE IF gateway = "plugin"
      THEN [Outcome(200, d) EXCEPT !.code = getAccessCode(d)]
    ELSE IF authCodeFile # NoCode
      THEN [Outcome(200, d) EXCEPT !.code = authCodeFile]
    ELSE Outcome(404, d)

\* Variant of the revoke handler without the check against the caller's own id.
RevokeHandler_AllowsSelf(d, nowMs, token, targetDeviceId) ==
    IF ~Authenticated(d, nowMs, token) THEN Outcome(401, d)
    ELSE LET removed == removeDevice(d, targetDeviceId)
         IN IF removed.result THEN Outcome(200, removed.data) ELSE Outcome(404, d)

\* DELETE /api/devices/:id (legacy middleware and Electron server)
RevokeHandler(d, nowMs, token, targetDeviceId) ==
    IF ~Authenticated(d, nowMs, token) THEN Outcome(401, d)
    ELSE LET result == verifyToken(d, token, nowMs)
         IN IF targetDeviceId = result.deviceId THEN Outcome(400, d)
            ELSE LET removed == IF gateway = "legacy"
                                  THEN revokeDevice(d, targetDeviceId)
                                  ELSE removeDevice(d, targetDeviceId)
                 IN IF removed.result THEN Outcome(200, removed.data)
                    ELSE Outcome(404, removed.data)

\* String.prototype.trim on a string given by its pieces: the white space
\* at both ends goes.
RECURSIVE TrimStart(_)
TrimStart(text) ==
    IF text # <<>> /\ Head(text) \in WhiteSpace THEN TrimStart(Tail(text)) ELSE text

RECURSIVE TrimEnd(_)
TrimEnd(text) ==
    IF text # <<>> /\ text[Len(text)] \in WhiteSpace
      THEN TrimEnd(SubSeq(text, 1, Len(text) - 1))
      ELSE text

trim(text) == TrimEnd(TrimStart(text))

\* Variant of the rename handler that accepts a name of white space only.
RenameHandler_NoTrimCheck(d, nowMs, token, targetDeviceId, body) ==
    IF ~Authenticated(d, nowMs, token) THEN Outcome(401, d)
    ELSE IF ~body.json THEN Outcome(400, d)
    ELSE IF body.name.type # "string" \/ body.name.text = <<>> THEN Outcome(400, d)
    ELSE IF getDevice(d, targetDeviceId) = NoDevice THEN Outcome(404, d)
    ELSE LET updated == updateDevice(d, targetDeviceId,
                                     [name |-> Text(trim(body.name.text))])
         IN [Outcome(200, updated) EXCEPT
               !.device = getDevice(updated, targetDeviceId)]

\* Variant of the rename handler that stores the name as it was sent.
RenameHandler_Untrimmed(d, nowMs, token, targetDeviceId, body) ==
    IF ~Authenticated(d, nowMs, token) THEN Outcome(401, d)
    ELSE IF ~body.json THEN Outcome(400, d)
    ELSE IF body.name.type # "string" \/ body.name.text = <<>>
            \/ Len(trim(body.name.text)) = 0
      THEN Outcome(400, d)
    ELSE IF getDevice(d, targetDeviceId) = NoDevice THEN Outcome(404, d)
    ELSE LET updated == updateDevice(d, targetDeviceId,
                                     [name |-> Text(body.name.text)])
         IN [Outcome(200, updated) EXCEPT
               !.device = getDevice(updated, targetDeviceId)]

\* PUT /api/devices/:id/rename (legacy middleware and Electron server)
RenameHandler(d, nowMs, token, targetDeviceId, body) ==
    IF ~Authenticated(d, nowMs, token) THEN Outcome(401, d)
    ELSE IF ~body.json THEN Outcome(400, d)
    ELSE IF body.name.type # "string" \/ body.name.text = <<>>
            \/ Len(trim(body.name.text)) = 0
      THEN Outcome(400, d)
    ELSE IF getDevice(d, targetDeviceId) = NoDevice THEN Outcome(404, d)
    ELSE LET updated == updateDevice(d, targetDeviceId,
                                     [name |-> Text(trim(body.name.text))])
         IN [Outcome(200, updated) EXCEPT
               !.device = getDevice(updated, targetDeviceId)]

\* POST /api/devices/revoke-others (legacy middleware and Electron server)
RevokeOthersHandler(d, nowMs, token) ==
    IF ~Authenticated(d, nowMs, token) THEN Outcome(401, d)
    ELSE LET result == verifyToken(d, token, nowMs)
             revoked == revokeAllExcept(d, result.deviceId)
         IN [Outcome(200, revoked.data) EXCEPT !.revokedCount = revoked.result]

(***************************************************************************)
(* Initial state                                                           *)
(***************************************************************************)
Configurations ==
    {<<"legacy", "web", LaunchCode>>, <<"legacy", "web", NoCode>>,
     <<"plugin", "web", NoCode>>, <<"plugin", "electron", NoCode>>,
     <<"electron", "electron", NoCode>>}

Init ==
    /\ \E cfg \in Configurations :
         /\ gateway = cfg[1]
         /\ store = cfg[2]
         /\ authCodeFile = cfg[3]
    /\ now = StartTime
    /\ ticks = 0
    /\ data = createEmpty("secretA")
    /\ deviceIdsDrawn = 0
    /\ requestIdsDrawn = 0
    /\ held = [c \in Callers |-> {}]
    /\ filer = <<>>
    /\ approvals = <<>>
    /\ probe = NoProbe
    /\ disk = File(data)
    /\ secretsDrawn = 1
    /\ faults = 0
    /\ standby = NoStandby
    /\ service = NoService

(***************************************************************************)
(* Actions: one call of a handler by a caller                              *)
(***************************************************************************)
Config == <<gateway, store, authCodeFile>>

\* The effect of a handler's outcome on the store, the id generators and
\* what the caller now holds.
Respond(c, out) ==
    /\ out.drewDevice => deviceIdsDrawn < MaxDevices
    /\ out.drewRequest => requestIdsDrawn < MaxRequests
    /\ data' = out.data
    /\ deviceIdsDrawn' = IF out.drewDevice THEN deviceIdsDrawn + 1 ELSE deviceIdsDrawn
    /\ requestIdsDrawn' = IF out.drewRequest THEN requestIdsDrawn + 1 ELSE requestIdsDrawn
    /\ held' = IF out.token # NoToken THEN [held EXCEPT ![c] = @ \cup {out.token}]
               ELSE held
    /\ disk' = File(out.data)
    /\ UNCHANGED <<Config, now, ticks, secretsDrawn, faults, standby, service>>

\* A handler that runs from the request to the answer in one piece.
Apply(c, out) ==
    /\ Respond(c, out)
    /\ UNCHANGED probe

Verify(c, forwarded, body) ==
    /\ gateway = "legacy"
    /\ Apply(c, VerifyHandler(data, now, deviceIdsDrawn + 1, PeerAddress(c),
                              forwarded, body))
    /\ UNCHANGED <<filer, approvals>>

LocalAuth(c, forwarded, body) ==
    /\ gateway \in {"legacy", "plugin"}
    /\ Apply(c, LocalAuthHandler(data, now, deviceIdsDrawn + 1, PeerAddress(c),
                                 forwarded, body))
    /\ UNCHANGED <<filer, approvals>>

RequestAccess(c, forwarded, body) ==
    LET out == RequestAccessHandler(data, now, requestIdsDrawn + 1, PeerAddress(c),
                                    forwarded, body)
    IN /\ Apply(c, out)
       /\ filer' = IF out.drewRequest THEN Put(filer, out.requestId, c) ELSE filer
       /\ UNCHANGED approvals

CheckStatus(c, requestId) ==
    /\ Apply(c, CheckStatusHandler(data, now, requestId))
    /\ UNCHANGED <<filer, approvals>>

ListPending(c, forwarded, token) ==
    /\ Apply(c, ListPendingHandler(data, now, PeerAddress(c), forwarded, token))
    /\ UNCHANGED <<filer, approvals>>

Approve(c, forwarded, token, body) ==
    LET out == ApproveHandler(data, now, deviceIdsDrawn + 1, PeerAddress(c),
                              forwarded, token, body)
    IN /\ Apply(c, out)
       /\ approvals' = IF out.status = 200
                         THEN Append(approvals,
                                     [requestId |-> out.requestId,
                                      deviceId |-> out.deviceId,
                                      caller |-> c,
                                      authValid |-> Authenticated(data, now, token)])
                         ELSE approvals
       /\ UNCHANGED filer

Deny(c, forwarded, token, body) ==
    /\ Apply(c, DenyHandler(data, now, PeerAddress(c), forwarded, token, body))
    /\ UNCHANGED <<filer, approvals>>

Validate(c, forwarded, token) ==
    /\ Apply(c, ValidateHandler(data, now, PeerAddress(c), forwarded, token))
    /\ UNCHANGED <<filer, approvals>>

Logout(c, token) ==
    /\ gateway \in {"legacy", "electron"}
    /\ Apply(c, LogoutHandler(data, now, token))
    /\ UNCHANGED <<filer, approvals>>

Code(c, token) ==
    /\ Apply(c, CodeHandler(data, now, token))
    /\ UNCHANGED <<filer, approvals>>

Revoke(c, token, targetDeviceId) ==
    /\ gateway \in {"legacy", "electron"}
    /\ Apply(c, RevokeHandler(data, now, token, targetDeviceId))
    /\ UNCHANGED <<filer, approvals>>

Rename(c, token, targetDeviceId, body) ==
    /\ gateway \in {"legacy", "electron"}
    /\ Apply(c, RenameHandler(data, now, token, targetDeviceId, body))
    /\ UNCHANGED <<filer, approvals>>

RevokeOthers(c, token) ==
    /\ gateway \in {"legacy", "electron"}
    /\ Apply(c, RevokeOthersHandler(data, now, token))
    /\ UNCHANGED <<filer, approvals>>

\* The clock advances between two handlers.
Tick(step) ==
    /\ ticks < MaxTicks
    /\ ticks' = ticks + 1
    /\ now' = now + step
    /\ UNCHANGED <<Config, data, deviceIdsDrawn, requestIdsDrawn, held, filer,
                   approvals, probe, disk, secretsDrawn, faults,
                   standby, service>>

(***************************************************************************)
(* Specification                                                           *)
(***************************************************************************)
\* Request ids a caller can name: none, the ids of the requests it filed,
\* the ids the local operator's page lists, and an id that names nothing.
KnownRequestIds(c) ==
    {NoId, requestIdsDrawn + 1}
      \cup {r \in DOMAIN filer : filer[r] = c \/ OriginIsLocal(c)}

\* Device ids a caller can name: those of the registry (GET /api/devices
\* lists them) and an id that names nothing.
KnownDeviceIds == DOMAIN data.devices \cup {deviceIdsDrawn + 1}

\* Bodies of a rename sent by the pages of the model.
RenameBodies ==
    {[json |-> TRUE, name |-> StringName(<<" ">>)],
     [json |-> TRUE, name |-> StringName(<<" ", "My", " ", "Mac", "\t">>)]}

\* Authorization headers the callers of the exploration send: none, or a
\* token received earlier (a made-up token is answered like none).
Sendable(c) == {NoToken} \cup held[c]

Next ==
    \/ \E c \in Callers : \E forwarded \in ForwardedValues(c), body \in CodeBodies(c) :
          Verify(c, forwarded, body)
    \/ \E c \in Callers : \E forwarded \in ForwardedValues(c), body \in DeviceBodies(c) :
          LocalAuth(c, forwarded, body)
    \/ \E c \in Callers : \E forwarded \in ForwardedValues(c), body \in CodeBodies(c) :
          RequestAccess(c, forwarded, body)
    \/ \E c \in Callers : \E requestId \in KnownRequestIds(c) :
          CheckStatus(c, requestId)
    \/ \E c \in Callers : \E forwarded \in ForwardedValues(c), token \in Sendable(c) :
          ListPending(c, forwarded, token)
    \/ \E c \in Callers : \E forwarded \in ForwardedValues(c), token \in Sendable(c),
          requestId \in KnownRequestIds(c) :
          Approve(c, forwarded, token, [json |-> TRUE, requestId |-> requestId])
    \/ \E c \in Callers : \E forwarded \in ForwardedValues(c), token \in Sendable(c),
          requestId \in KnownRequestIds(c) :
          Deny(c, forwarded, token, [json |-> TRUE, requestId |-> requestId])
    \/ \E c \in Callers : \E forwarded \in ForwardedValues(c), token \in Sendable(c) :
          Validate(c, forwarded, token)
    \/ \E c \in Callers : \E token \in Sendable(c) :
          Logout(c, token)
    \/ \E c \in Callers : \E token \in Sendable(c) :
          Code(c, token)
    \/ \E c \in Callers : \E token \in Sendable(c), target \in KnownDeviceIds :
          Revoke(c, token, target)
    \/ \E c \in Callers : \E token \in Sendable(c), target \in KnownDeviceIds,
          body \in RenameBodies :
          Rename(c, token, target, body)
    \/ \E c \in Callers : \E token \in Sendable(c) :
          RevokeOthers(c, token)
    \/ \E step \in TickSteps : Tick(step)

Spec == Init /\ [][Next]_vars

(***************************************************************************)
(* The token codec applied to tokens of every make                         *)
(***************************************************************************)
Secrets == {"secretA", "secret149335", "secretB"}

\* Math.floor(Date.now() / 1000) when a token is minted, the exp it gets,
\* and the seconds at which tokens are verified.
IssueS == StartTime \div 1000
ExpiryS == IssueS + TOKEN_DAYS * 24 * 60 * 60
VerifyTimes == {IssueS, ExpiryS - 1, ExpiryS, ExpiryS + 1}

\* A token made by a holder of the secret from a payload text of its choice,
\* put together as generateJWT does.
SignedText(payloadText, secret) ==
    LET headerB64 == base64UrlEncode(JwtHeader)
        payloadB64 == base64UrlEncode(payloadText)
    IN <<headerB64, payloadB64,
         createHmacSignatureText(<<headerB64, payloadB64>>, secret)>>

\* Payload texts signed that way: exp 0, no exp, exp in the past, no
\* deviceId, null, no JSON.
CraftedPayloads ==
    [expZero |-> JsonObject({"deviceId", "iat", "exp"}, "", 1, IssueS, 0),
     noExp |-> JsonObject({"deviceId", "iat"}, "", 1, IssueS, 0),
     expPast |-> JsonObject({"deviceId", "iat", "exp"}, "", 1, 1, IssueS - 1),
     noDeviceId |-> JsonObject({"iat", "exp"}, "", NoId, IssueS, ExpiryS),
     null |-> JsonNull,
     notJson |-> NotJson]

\* Changes made to a minted token by someone without the secret.
Altered(token, how) ==
    CASE how = "header" ->
           <<base64UrlEncode([JwtHeader EXCEPT !.alg = "none"]), token[2], token[3]>>
      [] how = "payloadDevice" ->
           <<token[1],
             base64UrlEncode([token[2].text EXCEPT !.deviceId = 3 - @]),
             token[3]>>
      [] how = "payloadExpiry" ->
           <<token[1],
             base64UrlEncode([token[2].text EXCEPT !.exp = @ + 24 * 60 * 60]),
             token[3]>>
      [] how = "signature" -> <<token[1], token[2], RawPiece>>
      [] how = "twoParts" -> <<token[1], token[2]>>
      [] how = "fourParts" -> token \o <<RawPiece>>
Alterations ==
    {"header", "payloadDevice", "payloadExpiry", "signature", "twoParts", "fourParts"}
SignedParts == {"header", "payloadDevice", "payloadExpiry"}

\* Strings that are no token: the empty string, text without dots, too few
\* or too many pieces, pieces that are no base64 of JSON, a payload without
\* deviceId under a made-up signature.
MalformedTokens ==
    [empty |-> <<EmptyPiece>>,
     noDots |-> <<RawPiece>>,
     twoPieces |-> <<RawPiece, RawPiece>>,
     fourPieces |-> <<RawPiece, RawPiece, RawPiece, RawPiece>>,
     notBase64 |-> <<base64UrlEncode(JwtHeader), RawPiece, RawPiece>>,
     unsignedNotJson |->
         <<base64UrlEncode(JwtHeader), base64UrlEncode(NotJson), RawPiece>>,
     unsignedNoDeviceId |-> <<base64UrlEncode(JwtHeader),
                             base64UrlEncode(CraftedPayloads.noDeviceId), RawPiece>>]

\* A store with one device, created with the given secret.
StoreWithDevice(secret) ==
    addDevice(createEmpty(secret),
              [id |-> 1, name |-> "Mac", platform |-> "macOS", browser |-> "Chrome",
               createdAt |-> StartTime, lastSeenAt |-> StartTime, ip |-> Loopback,
               isHost |-> TRUE])

CodecInit ==
    /\ gateway = "plugin"
    /\ store = "web"
    /\ authCodeFile = NoCode
    /\ now = StartTime
    /\ ticks = 0
    /\ \E secret \in Secrets : data = StoreWithDevice(secret)
    /\ deviceIdsDrawn = 1
    /\ requestIdsDrawn = 0
    /\ held = [c \in Callers |-> {}]
    /\ filer = <<>>
    /\ approvals = <<>>
    /\ probe = NoProbe
    /\ disk = File(data)
    /\ secretsDrawn = 1
    /\ faults = 0
    /\ standby = NoStandby
    /\ service = NoService

CodecFrame ==
    UNCHANGED <<Config, now, ticks, data, deviceIdsDrawn, requestIdsDrawn, held,
                filer, approvals, disk, secretsDrawn, faults,
                   standby, service>>

\* generateToken(deviceId)
Mint(deviceId) ==
    /\ probe.stage = "none"
    /\ probe' = [probe EXCEPT
                   !.stage = "token", !.origin = "minted", !.deviceId = deviceId,
                   !.token = generateJWTText(DevicePayload(deviceId), data.jwtSecret,
                                             TOKEN_DAYS, now \div 1000)]
    /\ CodecFrame

Craft(which) ==
    /\ probe.stage = "none"
    /\ probe' = [probe EXCEPT
                   !.stage = "token", !.origin = which,
                   !.token = SignedText(CraftedPayloads[which], data.jwtSecret)]
    /\ CodecFrame

Alter(how) ==
    /\ probe.stage = "token"
    /\ probe.origin = "minted"
    /\ probe' = [probe EXCEPT !.origin = how, !.token = Altered(probe.token, how)]
    /\ CodecFrame

Receive(which) ==
    /\ probe.stage = "none"
    /\ probe' = [probe EXCEPT
                   !.stage = "token", !.origin = which,
                   !.token = MalformedTokens[which]]
    /\ CodecFrame

\* verifyJWT(token, key) and deviceStore.verifyToken(token) at the given second.
VerifyText(key, at) ==
    /\ probe.stage = "token"
    /\ probe' = [probe EXCEPT
                   !.stage = "verified", !.key = key, !.at = at,
                   !.jwt = verifyJWTText(probe.token, key, at),
                   !.verdict = verifyTokenText(data, probe.token, at)]
    /\ CodecFrame

\* deviceStore.getAccessCode()
AccessCode ==
    /\ probe.code = NoCode
    /\ probe' = [probe EXCEPT !.code = getAccessCode(data)]
    /\ CodecFrame

CodecNext ==
    \/ \E deviceId \in 1..2 : Mint(deviceId)
    \/ \E which \in DOMAIN CraftedPayloads : Craft(which)
    \/ \E how \in Alterations : Alter(how)
    \/ \E which \in DOMAIN MalformedTokens : Receive(which)
    \/ \E key \in Secrets, at \in VerifyTimes : VerifyText(key, at)
    \/ AccessCode

CodecSpec == CodecInit /\ [][CodecNext]_vars

(***************************************************************************)
(* The store and its file: operations, restarts and outside damage         *)
(***************************************************************************)
\* Number of outside changes of the file in one exploration.
MaxFaults == 1
\* Number of device ids drawn in one exploration of the store.
StoreDevices == 1
\* Number of clock advances in one exploration of the store.
StoreTicks == 1
\* Number of access requests filed in one exploration of the store.
StoreRequests == 2
\* Number of tokens handed out in one exploration of the store.
StoreTokens == 1
\* Amounts by which the clock advances between two store operations (ms).
StoreSteps == {REQUEST_EXPIRY_MS + 1, RETENTION_MS, RETENTION_MS + 1}

\* crypto.randomBytes(64).toString("hex"): the results of generateSecret(),
\* in the order in which they are drawn.
SecretPool == <<"secretA", "secret149335", "secretB", "secretC">>

generateSecret ==
    SecretPool[IF secretsDrawn < Len(SecretPool) THEN secretsDrawn + 1
               ELSE Len(SecretPool)]

\* The data an operation starts from: the web store reloads the file before
\* every operation but getAccessCode, the Electron store works on memory.
ensureFresh ==
    IF store = "web" THEN load(disk, generateSecret)
    ELSE [data |-> data, disk |-> disk, drew |-> FALSE]

\* The end of a store operation: what it leaves in memory, and on the file
\* when it called save().
Persist(after, saves) ==
    /\ ensureFresh.drew => secretsDrawn < Len(SecretPool)
    /\ data' = after
    /\ disk' = IF saves THEN File(after) ELSE ensureFresh.disk
    /\ secretsDrawn' = IF ensureFresh.drew THEN secretsDrawn + 1 ELSE secretsDrawn
    /\ UNCHANGED <<Config, now, ticks, filer, approvals, probe, faults,
                   standby, service>>

StoreDevice(deviceId) ==
    [id |-> deviceId, name |-> "Mac", platform |-> "macOS", browser |-> "Chrome",
     createdAt |-> now, lastSeenAt |-> now, ip |-> Loopback, isHost |-> "true"]

\* The tokens handed out so far.
Minted == held["local"]

StoreAddDevice ==
    /\ deviceIdsDrawn < StoreDevices
    /\ Persist(addDevice(ensureFresh.data, StoreDevice(deviceIdsDrawn + 1)), TRUE)
    /\ deviceIdsDrawn' = deviceIdsDrawn + 1
    /\ UNCHANGED <<requestIdsDrawn, held>>

StoreGenerateToken(deviceId) ==
    /\ Cardinality(Minted) < StoreTokens
    /\ deviceId \in DOMAIN ensureFresh.data.devices
    /\ Persist(ensureFresh.data, FALSE)
    /\ held' = [held EXCEPT !["local"] =
                  @ \cup {generateJWT(deviceId, ensureFresh.data.jwtSecret,
                                      TOKEN_DAYS, now)}]
    /\ UNCHANGED <<deviceIdsDrawn, requestIdsDrawn>>

StoreVerifyToken(token) ==
    /\ Persist(ensureFresh.data, FALSE)
    /\ UNCHANGED <<deviceIdsDrawn, requestIdsDrawn, held>>

StoreUpdateDevice(deviceId) ==
    /\ Persist(updateDevice(ensureFresh.data, deviceId, [name |-> "Renamed"]),
               deviceId \in DOMAIN ensureFresh.data.devices)
    /\ UNCHANGED <<deviceIdsDrawn, requestIdsDrawn, held>>

StoreUpdateLastSeen(deviceId) ==
    /\ Persist(updateLastSeen(ensureFresh.data, deviceId, LanAddress, now),
               deviceId \in DOMAIN ensureFresh.data.devices)
    /\ UNCHANGED <<deviceIdsDrawn, requestIdsDrawn, held>>

StoreRemoveDevice(deviceId) ==
    /\ Persist(removeDevice(ensureFresh.data, deviceId).data,
               deviceId \in DOMAIN ensureFresh.data.devices)
    /\ UNCHANGED <<deviceIdsDrawn, requestIdsDrawn, held>>

StoreRevokeAllExcept(keepDeviceId) ==
    /\ Persist(revokeAllExcept(ensureFresh.data, keepDeviceId).data,
               revokeAllExcept(ensureFresh.data, keepDeviceId).result > 0)
    /\ UNCHANGED <<deviceIdsDrawn, requestIdsDrawn, held>>

\* Variant of revokeToken that does not write the file.
StoreRevokeToken_NoSave(token) ==
    /\ store = "web"
    /\ Persist(revokeToken(ensureFresh.data, token), FALSE)
    /\ UNCHANGED <<deviceIdsDrawn, requestIdsDrawn, held>>

StoreRevokeToken(token) ==
    /\ store = "web"
    /\ Persist(revokeToken(ensureFresh.data, token),
               token \notin ensureFresh.data.revokedTokens)
    /\ UNCHANGED <<deviceIdsDrawn, requestIdsDrawn, held>>

StoreCreatePendingRequest ==
    /\ requestIdsDrawn < StoreRequests
    /\ Persist(createPendingRequest(ensureFresh.data, BodyDevice("remote"), LanAddress,
                                    now, requestIdsDrawn + 1).data, TRUE)
    /\ requestIdsDrawn' = requestIdsDrawn + 1
    /\ UNCHANGED <<deviceIdsDrawn, held>>

\* expireRequest() saves when it marks the request.
StoreGetPendingRequest(requestId) ==
    /\ Persist(getPendingRequest(ensureFresh.data, requestId, now).data,
               /\ store = "web"
               /\ requestId \in DOMAIN ensureFresh.data.pendingRequests
               /\ isRequestExpired(ensureFresh.data.pendingRequests[requestId], now))
    /\ UNCHANGED <<deviceIdsDrawn, requestIdsDrawn, held>>

\* cleanupExpiredRequests() saves when it marked or deleted a request.
StoreListPendingRequests ==
    /\ Persist(listPendingRequests(ensureFresh.data, now).data,
               /\ store = "web"
               /\ cleanupExpiredRequests(ensureFresh.data, now) # ensureFresh.data)
    /\ UNCHANGED <<deviceIdsDrawn, requestIdsDrawn, held>>

StoreApproveRequest(requestId) ==
    LET out == approveRequest(ensureFresh.data, requestId, now, deviceIdsDrawn + 1)
        found == /\ requestId \in DOMAIN ensureFresh.data.pendingRequests
                 /\ ensureFresh.data.pendingRequests[requestId].status = "pending"
    IN /\ deviceIdsDrawn < StoreDevices
       /\ Persist(out.data, found)
       /\ deviceIdsDrawn' = IF out.result # NoRequest THEN deviceIdsDrawn + 1
                            ELSE deviceIdsDrawn
       /\ held' = IF out.result # NoRequest
                    THEN [held EXCEPT !["local"] = @ \cup {out.result.token}]
                    ELSE held
       /\ UNCHANGED requestIdsDrawn

StoreDenyRequest(requestId) ==
    /\ Persist(denyRequest(ensureFresh.data, requestId, now).data,
               /\ requestId \in DOMAIN ensureFresh.data.pendingRequests
               /\ ensureFresh.data.pendingRequests[requestId].status = "pending")
    /\ UNCHANGED <<deviceIdsDrawn, requestIdsDrawn, held>>

\* The process ends and starts again: the constructor (init() in Electron)
\* loads the file.
Restart ==
    LET loaded == load(disk, generateSecret)
    IN /\ loaded.drew => secretsDrawn < Len(SecretPool)
       /\ data' = loaded.data
       /\ disk' = loaded.disk
       /\ secretsDrawn' = IF loaded.drew THEN secretsDrawn + 1 ELSE secretsDrawn
       /\ UNCHANGED <<Config, now, ticks, deviceIdsDrawn, requestIdsDrawn, held,
                      filer, approvals, probe, faults,
                   standby, service>>

\* Something other than the store rewrites the file.
DamageKinds == {"unparsable", "noSecret"}

Damage(kind) ==
    /\ faults < MaxFaults
    /\ disk.kind = "json"
    /\ faults' = faults + 1
    /\ disk' = IF kind = "unparsable" THEN Unparsable
               ELSE File([disk.content EXCEPT !.jwtSecret = NoSecret])
    /\ UNCHANGED <<Config, now, ticks, data, deviceIdsDrawn, requestIdsDrawn, held,
                   filer, approvals, probe, secretsDrawn, standby, service>>

StoreTick(step) ==
    /\ ticks < StoreTicks
    /\ ticks' = ticks + 1
    /\ now' = now + step
    /\ UNCHANGED <<Config, data, deviceIdsDrawn, requestIdsDrawn, held, filer,
                   approvals, probe, disk, secretsDrawn, faults,
                   standby, service>>

\* The state after construction on a machine without a store file.
StoreInit ==
    /\ \E s \in {"web", "electron"} :
         /\ store = s
         /\ gateway = IF s = "web" THEN "plugin" ELSE "electron"
    /\ authCodeFile = NoCode
    /\ now = StartTime
    /\ ticks = 0
    /\ data = createEmpty(SecretPool[1])
    /\ deviceIdsDrawn = 0
    /\ requestIdsDrawn = 0
    /\ held = [c \in Callers |-> {}]
    /\ filer = <<>>
    /\ approvals = <<>>
    /\ probe = NoProbe
    /\ disk = File(data)
    /\ secretsDrawn = 1
    /\ faults = 0
    /\ standby = NoStandby
    /\ service = NoService

StoreNext ==
    \/ StoreAddDevice
    \/ \E deviceId \in 1..StoreDevices + 1 : StoreGenerateToken(deviceId)
    \/ \E token \in Minted : StoreVerifyToken(token)
    \/ \E deviceId \in 1..StoreDevices + 1 : StoreUpdateDevice(deviceId)
    \/ \E deviceId \in 1..StoreDevices + 1 : StoreUpdateLastSeen(deviceId)
    \/ \E deviceId \in 1..StoreDevices + 1 : StoreRemoveDevice(deviceId)
    \/ \E keepDeviceId \in 1..StoreDevices + 1 : StoreRevokeAllExcept(keepDeviceId)
    \/ \E token \in Minted : StoreRevokeToken(token)
    \/ StoreCreatePendingRequest
    \/ \E requestId \in 1..StoreRequests : StoreGetPendingRequest(requestId)
    \/ StoreListPendingRequests
    \/ \E requestId \in 1..StoreRequests : StoreApproveRequest(requestId)
    \/ \E requestId \in 1..StoreRequests : StoreDenyRequest(requestId)
    \/ Restart
    \/ \E kind \in DamageKinds : Damage(kind)
    \/ \E step \in StoreSteps : StoreTick(step)

StoreSpec == StoreInit /\ [][StoreNext]_vars

(***************************************************************************)
(* Two processes on one store file (the development topology): the web     *)
(* side's DeviceStore and the Electron main process's DeviceStore.  Their  *)
(* operations do not overlap; `store` and `data` are the class and the     *)
(* memory of the process that runs next, `standby` the memory of the other.*)
(***************************************************************************)
\* Both processes have started: the first found no file and created it, the
\* second loaded what the first wrote.
SharedInit ==
    /\ \E s \in {"web", "electron"} :
         /\ store = s
         /\ gateway = IF s = "web" THEN "plugin" ELSE "electron"
    /\ authCodeFile = NoCode
    /\ now = StartTime
    /\ ticks = 0
    /\ data = createEmpty(SecretPool[1])
    /\ deviceIdsDrawn = 0
    /\ requestIdsDrawn = 0
    /\ held = [c \in Callers |-> {}]
    /\ filer = <<>>
    /\ approvals = <<>>
    /\ probe = NoProbe
    /\ disk = File(data)
    /\ secretsDrawn = 1
    /\ faults = 0
    /\ standby = data
    /\ service = NoService

\* The next operation is one of the other process.
Switch ==
    /\ store' = IF store = "web" THEN "electron" ELSE "web"
    /\ gateway' = IF store = "web" THEN "electron" ELSE "plugin"
    /\ data' = standby
    /\ standby' = data
    /\ UNCHANGED <<authCodeFile, now, ticks, deviceIdsDrawn, requestIdsDrawn, held,
                   filer, approvals, probe, disk, secretsDrawn, faults, service>>

SharedNext ==
    \/ StoreAddDevice
    \/ \E deviceId \in 1..StoreDevices : StoreGenerateToken(deviceId)
    \/ \E deviceId \in 1..StoreDevices : StoreUpdateLastSeen(deviceId)
    \/ \E deviceId \in 1..StoreDevices : StoreRemoveDevice(deviceId)
    \/ StoreCreatePendingRequest
    \/ \E requestId \in 1..StoreRequests : StoreDenyRequest(requestId)
    \/ Switch

SharedSpec == SharedInit /\ [][SharedNext]_vars

(***************************************************************************)
(* Client addresses: getClientIp and isLocalhost on drawn addresses        *)
(***************************************************************************)
\* Address strings, as the pieces the pattern /^::ffff:/ can tell apart.
Addresses ==
    {<<"127.0.0.1">>, <<"::1">>, <<"localhost">>,
     <<"::ffff:", "127.0.0.1">>, <<"::ffff:", "::1">>, <<"::ffff:", "localhost">>,
     <<"::ffff:", "::ffff:", "127.0.0.1">>, <<"127.0.0.1", "::ffff:">>,
     <<"::ffff:">>, <<>>,
     <<"127.0.0.2">>, <<"127.1.2.3">>, <<"::ffff:", "127.0.0.2">>,
     <<"LOCALHOST">>, <<"0.0.0.0">>,
     LanAddress, <<"::ffff:", "192.168.1.50">>, PublicAddress, <<"unknown">>}

\* A request arrives: its socket address and its X-Forwarded-For header.
AddressInit ==
    /\ gateway = "legacy"
    /\ store = "web"
    /\ authCodeFile = NoCode
    /\ now = StartTime
    /\ ticks = 0
    /\ data = createEmpty("secretA")
    /\ deviceIdsDrawn = 0
    /\ requestIdsDrawn = 0
    /\ held = [c \in Callers |-> {}]
    /\ filer = <<>>
    /\ approvals = <<>>
    /\ \E peer \in Addresses :
         \E forwarded \in {NoHeader} \cup {<<a>> : a \in Addresses} :
            probe = [stage |-> "received", peer |-> peer, forwarded |-> forwarded,
                     clientIp |-> <<>>, isLocal |-> FALSE]
    /\ disk = File(data)
    /\ secretsDrawn = 1
    /\ faults = 0
    /\ standby = NoStandby
    /\ service = NoService

\* const clientIp = getClientIp(req)
ResolveClientIp ==
    /\ probe.stage = "received"
    /\ probe' = [probe EXCEPT !.stage = "resolved",
                              !.clientIp = getClientIp(probe.peer, probe.forwarded)]
    /\ CodecFrame

\* const isLocal = isLocalhost(clientIp)
Classify ==
    /\ probe.stage = "resolved"
    /\ probe' = [probe EXCEPT !.stage = "classified",
                              !.isLocal = isLocalhost(probe.clientIp)]
    /\ CodecFrame

AddressNext == ResolveClientIp \/ Classify

AddressSpec == AddressInit /\ [][AddressNext]_vars

(***************************************************************************)
(* The approve and deny handlers around `await parseBody(req)`: other      *)
(* handlers run while the body is being received                           *)
(***************************************************************************)
NoCall == [stage |-> "none", url |-> "", caller |-> "", token |-> NoToken]

AwaitInit ==
    /\ gateway = "legacy"
    /\ store = "web"
    /\ authCodeFile = LaunchCode
    /\ now = StartTime
    /\ ticks = 0
    /\ data = createEmpty("secretA")
    /\ deviceIdsDrawn = 0
    /\ requestIdsDrawn = 0
    /\ held = [c \in Callers |-> {}]
    /\ filer = <<>>
    /\ approvals = <<>>
    /\ probe = NoCall
    /\ disk = File(data)
    /\ secretsDrawn = 1
    /\ faults = 0
    /\ standby = NoStandby
    /\ service = NoService

\* The handler verifies the token and the origin, then waits for the body.
AdminBegin(c, url, forwarded, token) ==
    /\ probe.stage = "none"
    /\ AdminBeforeBody(data, now, PeerAddress(c), forwarded, token) = 0
    /\ probe' = [stage |-> "awaiting", url |-> url, caller |-> c, token |-> token]
    /\ UNCHANGED <<Config, now, ticks, data, deviceIdsDrawn, requestIdsDrawn, held,
                   filer, approvals, disk, secretsDrawn, faults, standby, service>>

\* The body has arrived: the handler goes on from the await.
AdminFinish(body) ==
    /\ probe.stage = "awaiting"
    /\ Respond(probe.caller,
               IF probe.url = "approve"
                 THEN ApproveAfterBody(data, now, deviceIdsDrawn + 1, body)
                 ELSE DenyAfterBody(data, now, body))
    /\ probe' = NoCall
    /\ UNCHANGED <<filer, approvals>>

AwaitNext ==
    \/ \E c \in Callers : \E forwarded \in ForwardedValues(c), body \in DeviceBodies(c) :
          LocalAuth(c, forwarded, body)
    \/ \E c \in Callers : \E forwarded \in ForwardedValues(c), body \in CodeBodies(c) :
          RequestAccess(c, forwarded, body)
    \/ \E c \in Callers : \E url \in {"approve", "deny"} :
          \E forwarded \in ForwardedValues(c), token \in Sendable(c) :
             AdminBegin(c, url, forwarded, token)
    \/ \E requestId \in 1..MaxRequests :
          AdminFinish([json |-> TRUE, requestId |-> requestId])
    \/ \E c \in Callers : \E token \in Sendable(c) :
          Logout(c, token)
    \/ \E c \in Callers : \E token \in Sendable(c) :
          RevokeOthers(c, token)

AwaitSpec == AwaitInit /\ [][AwaitNext]_vars

(***************************************************************************)
(* Managers of child processes.  A child is "running" from its spawn,      *)
(* "killed" once kill() was called on it and its close event is still to   *)
(* come, and "closed" once its close or error event was delivered.         *)
(***************************************************************************)
\* Number of child processes spawned in one exploration.
MaxSpawns == 4
\* private process: ChildProcess | null = null
NoChild == 0

Frame ==
    UNCHANGED <<Config, now, ticks, data, deviceIdsDrawn, requestIdsDrawn, held,
                filer, approvals, probe, disk, secretsDrawn, faults, standby>>

Quiet ==
    /\ gateway = "electron"
    /\ store = "electron"
    /\ authCodeFile = NoCode
    /\ now = StartTime
    /\ ticks = 0
    /\ data = createEmpty("secretA")
    /\ deviceIdsDrawn = 0
    /\ requestIdsDrawn = 0
    /\ held = [c \in Callers |-> {}]
    /\ filer = <<>>
    /\ approvals = <<>>
    /\ probe = NoProbe
    /\ disk = File(data)
    /\ secretsDrawn = 1
    /\ faults = 0
    /\ standby = NoStandby

Live == {pid \in DOMAIN service.children : service.children[pid] = "running"}
Pending == {pid \in DOMAIN service.children :
              service.children[pid] \in {"running", "killed"}}

(***************************************************************************)
(* TunnelManager                                                           *)
(***************************************************************************)
StoppedInfo == [url |-> <<>>, status |-> "stopped"]
ErrorInfo == [url |-> <<>>, status |-> "error"]
\* The URL cloudflared prints for the tunnel of one child.
TunnelUrl(pid) == <<"https://", pid, ".trycloudflare.com">>

TunnelInit ==
    /\ Quiet
    /\ service = [process |-> NoChild, info |-> StoppedInfo, children |-> <<>>]

\* start(port) when spawn returns a child
TunnelStart ==
    /\ IF service.process # NoChild
         THEN UNCHANGED service
         ELSE /\ Len(service.children) < MaxSpawns
              /\ service' = [process |-> Len(service.children) + 1,
                             info |-> [url |-> <<>>, status |-> "starting",
                                       startTime |-> now],
                             children |-> Append(service.children, "running")]
    /\ Frame

\* start(port) when spawn (or the check of the binary) throws: the catch
TunnelStartThrows ==
    /\ service.process = NoChild
    /\ service' = [service EXCEPT !.info = ErrorInfo]
    /\ Frame

\* stop()
TunnelStop ==
    /\ service' =
         [process |-> NoChild,
          info |-> StoppedInfo,
          children |-> IF service.process # NoChild
                         THEN [service.children EXCEPT ![service.process] =
                                 IF @ = "running" THEN "killed" ELSE @]
                         ELSE service.children]
    /\ Frame

\* handleOutput: a child's output with the tunnel URL in it
TunnelOutput(pid) ==
    /\ pid \in Live
    /\ service' = [service EXCEPT
                     !.info = [url |-> TunnelUrl(pid), status |-> "running",
                               startTime |-> IF "startTime" \in DOMAIN service.info
                                               THEN service.info.startTime
                                               ELSE NoTime]]
    /\ Frame

\* process.on("close")
TunnelClose(pid) ==
    /\ pid \in Pending
    /\ service' = [process |-> NoChild,
                   info |-> StoppedInfo,
                   children |-> [service.children EXCEPT ![pid] = "closed"]]
    /\ Frame

\* process.on("error")
TunnelError(pid) ==
    /\ pid \in Pending
    /\ service' = [process |-> NoChild,
                   info |-> ErrorInfo,
                   children |-> [service.children EXCEPT ![pid] = "closed"]]
    /\ Frame

TunnelNext ==
    \/ TunnelStart
    \/ TunnelStartThrows
    \/ TunnelStop
    \/ \E pid \in 1..MaxSpawns : TunnelOutput(pid)
    \/ \E pid \in 1..MaxSpawns : TunnelClose(pid)
    \/ \E pid \in 1..MaxSpawns : TunnelError(pid)

TunnelSpec == TunnelInit /\ [][TunnelNext]_vars

(***************************************************************************)
(* OpenCodeProcess                                                         *)
(***************************************************************************)
NotRunning == [running |-> FALSE, pid |-> NoChild, error |-> FALSE]
Failed == [running |-> FALSE, pid |-> NoChild, error |-> TRUE]

\* `call` is the method that is suspended at an await, if any.
ProcessInit ==
    /\ Quiet
    /\ service = [process |-> NoChild, status |-> NotRunning, children |-> <<>>,
                  call |-> "none"]

\* start() up to `await this.waitForReady()`; with a process held it returns
\* this.status at once.
ProcessStart ==
    /\ service.call = "none"
    /\ IF service.process # NoChild
         THEN UNCHANGED service
         ELSE /\ Len(service.children) < MaxSpawns
              /\ service' = [process |-> Len(service.children) + 1,
                             status |-> [running |-> TRUE,
                                         pid |-> Len(service.children) + 1,
                                         error |-> FALSE],
                             children |-> Append(service.children, "running"),
                             call |-> "start"]
    /\ Frame

\* start() when spawn throws: the catch
ProcessStartThrows ==
    /\ service.call = "none"
    /\ service.process = NoChild
    /\ service' = [service EXCEPT !.status = Failed]
    /\ Frame

\* waitForReady() returns: the child answers on its port
ProcessReady ==
    /\ service.call = "start"
    /\ Live # {}
    /\ service' = [service EXCEPT !.call = "none"]
    /\ Frame

\* waitForReady() throws after its timeout: the catch of start()
ProcessReadyTimeout ==
    /\ service.call = "start"
    /\ service' = [service EXCEPT !.status = Failed, !.call = "none"]
    /\ Frame

\* stop() up to its await of the close event or of 5 seconds; with no
\* process held it only resets the status.
ProcessStop ==
    /\ service.call = "none"
    /\ IF service.process # NoChild
         THEN service' = [service EXCEPT
                            !.children[service.process] =
                               IF @ = "running" THEN "killed" ELSE @,
                            !.call = "stop"]
         ELSE service' = [service EXCEPT !.status = NotRunning]
    /\ Frame

\* stop() after its await
ProcessStopped ==
    /\ service.call = "stop"
    /\ service' = [service EXCEPT !.process = NoChild, !.status = NotRunning,
                                  !.call = "none"]
    /\ Frame

\* process.on("close")
ProcessClose(pid) ==
    /\ pid \in Pending
    /\ service' = [service EXCEPT !.process = NoChild, !.status = NotRunning,
                                  !.children[pid] = "closed"]
    /\ Frame

\* process.on("error")
ProcessError(pid) ==
    /\ pid \in Pending
    /\ service' = [service EXCEPT !.process = NoChild, !.status = Failed,
                                  !.children[pid] = "closed"]
    /\ Frame

ProcessNext ==
    \/ ProcessStart
    \/ ProcessStartThrows
    \/ ProcessReady
    \/ ProcessReadyTimeout
    \/ ProcessStop
    \/ ProcessStopped
    \/ \E pid \in 1..MaxSpawns : ProcessClose(pid)
    \/ \E pid \in 1..MaxSpawns : ProcessError(pid)

ProcessSpec == ProcessInit /\ [][ProcessNext]_vars

(***************************************************************************)
(* Properties                                                              *)
(***************************************************************************)
Terminal == {"approved", "denied", "expired"}
TwoMinutes == 2 * 60 * 1000

\* The calls a caller can make to the three administration endpoints.
AdminOutcomes(c, forwarded, token, requestId) ==
    LET body == [json |-> TRUE, requestId |-> requestId]
    IN {ListPendingHandler(data, now, PeerAddress(c), forwarded, token),
        ApproveHandler(data, now, deviceIdsDrawn + 1, PeerAddress(c), forwarded,
                       token, body),
        DenyHandler(data, now, PeerAddress(c), forwarded, token, body)}

\* The store after one more operation of the DeviceStore, at the current time.
AfterStoreOperation ==
    LET ids == DOMAIN data.pendingRequests
    IN {getPendingRequest(data, q, now).data : q \in ids}
         \cup {listPendingRequests(data, now).data}
         \cup {approveRequest(data, q, now, deviceIdsDrawn + 1).data : q \in ids}
         \cup {denyRequest(data, q, now).data : q \in ids}
         \cup {createPendingRequest(data, BodyDevice("remote"), LanAddress, now,
                                    requestIdsDrawn + 1).data}

\* C1: a token held by the remote caller passes validation only if the remote
\* caller filed a request and an approve of that request, made by the local
\* caller with a valid token, created the token's device.
C1_RemoteTokenOnlyAfterLocalApproval ==
    \A token \in held["remote"] :
        Authenticated(data, now, token) =>
            \E i \in DOMAIN approvals :
                /\ approvals[i].deviceId = token.deviceId
                /\ filer[approvals[i].requestId] = "remote"
                /\ approvals[i].caller = "local"
                /\ approvals[i].authValid

\* C2: list-pending, approve and deny answer 401 to an absent or invalid
\* token and 403 to a valid token of a non-local caller, and leave the store
\* as it was in both cases, in every gateway.
C2_AdminNeedsTokenAndLocalOrigin ==
    \A c \in Callers :
      \A forwarded \in ForwardedValues(c), token \in Presentable(c),
         requestId \in KnownRequestIds(c) :
        \A out \in AdminOutcomes(c, forwarded, token, requestId) :
            /\ ~Authenticated(data, now, token) =>
                  out.status = 401 /\ out.data = data
            /\ (Authenticated(data, now, token) /\ ~OriginIsLocal(c)) =>
                  out.status = 403 /\ out.data = data

\* C3: in both stores no operation (create, get, list, approve, deny) changes
\* the status of a request except from pending to approved, denied or
\* expired; a request that is approved, denied or expired keeps its status.
C3_StatusOneWay ==
    \A r \in DOMAIN data.pendingRequests :
      \A after \in AfterStoreOperation :
        r \in DOMAIN after.pendingRequests =>
          LET before == data.pendingRequests[r].status
              status == after.pendingRequests[r].status
          IN \/ status = before
             \/ before = "pending" /\ status \in Terminal

C3_Witness ==
    \E r \in DOMAIN data.pendingRequests :
        /\ data.pendingRequests[r].status = "expired"
        /\ ticks > 0

\* C4: in the web store a read (getPendingRequest, check-status) of a request
\* that is neither approved nor denied returns expired, and stores expired,
\* when the request is more than 2 minutes old; it returns pending when the
\* request is at most 2 minutes old.
C4_WebReadExpiresAfterWindow ==
    store = "web" =>
      \A r \in DOMAIN data.pendingRequests :
        data.pendingRequests[r].status \notin {"approved", "denied"} =>
          LET got == getPendingRequestWeb(data, r, now)
              answer == CheckStatusHandler(data, now, r)
          IN IF now - data.pendingRequests[r].createdAt > TwoMinutes
               THEN /\ got.result.status = "expired"
                    /\ got.data.pendingRequests[r].status = "expired"
                    /\ answer.reqStatus = "expired"
                    /\ answer.data.pendingRequests[r].status = "expired"
                    /\ answer.token = NoToken
               ELSE /\ got.result.status = "pending"
                    /\ got.data = data
                    /\ answer.reqStatus = "pending"

C4_Witness ==
    /\ store = "web"
    /\ \E r \in DOMAIN data.pendingRequests :
          /\ data.pendingRequests[r].status = "expired"
          /\ data.pendingRequests[r].resolvedAt = now
          /\ now - data.pendingRequests[r].createdAt = TwoMinutes + 1

\* C5: through the Electron server and the Electron store, once 121 seconds
\* have passed since a request was created and nobody approved or denied it,
\* check-status answers expired and an approve that follows answers 404 and
\* creates no device.
C5_ElectronExpiresAfter121Seconds ==
    (gateway = "electron" /\ store = "electron") =>
      \A r \in DOMAIN data.pendingRequests :
        (/\ data.pendingRequests[r].status \notin {"approved", "denied"}
         /\ now - data.pendingRequests[r].createdAt >= 121 * 1000) =>
          LET answer == CheckStatusHandler(data, now, r)
              approve == ApproveHandler(answer.data, now, deviceIdsDrawn + 1,
                                        PeerAddress("local"), NoHeader, NoToken,
                                        [json |-> TRUE, requestId |-> r])
          IN /\ answer.reqStatus = "expired"
             /\ approve.status = 404
             /\ approve.data.devices = data.devices

\* C6: in the web store approveRequest of a request more than 2 minutes old
\* fails, adds no device and leaves the request expired, directly or after a
\* get or a list has read the request.
C6_WebApproveAfterWindowFails ==
    store = "web" =>
      \A r \in DOMAIN data.pendingRequests :
        (/\ data.pendingRequests[r].status \notin {"approved", "denied"}
         /\ now - data.pendingRequests[r].createdAt > TwoMinutes) =>
          \A d \in {data, getPendingRequestWeb(data, r, now).data,
                    listPendingRequestsWeb(data, now).data} :
            LET approve == approveRequestWeb(d, r, now, deviceIdsDrawn + 1)
            IN /\ approve.result = NoRequest
               /\ approve.data.devices = data.devices
               /\ approve.data.pendingRequests[r].status = "expired"
               /\ approve.data.pendingRequests[r].deviceId = NoId
               /\ approve.data.pendingRequests[r].token = NoToken

C6_Witness ==
    /\ store = "web"
    /\ \E r \in DOMAIN data.pendingRequests :
          /\ data.pendingRequests[r].status = "pending"
          /\ now - data.pendingRequests[r].createdAt > TwoMinutes
          /\ \E token \in held["local"] : Authenticated(data, now, token)

\* C7: in both stores approveRequest of an approved or denied request fails
\* and changes nothing, and no request id has two successful approvals.
C7_ApproveResolvedIsNoOp ==
    /\ \A r \in DOMAIN data.pendingRequests :
         data.pendingRequests[r].status \in {"approved", "denied"} =>
           LET approve == approveRequest(data, r, now, deviceIdsDrawn + 1)
           IN approve.result = NoRequest /\ approve.data = data
    /\ \A i, j \in DOMAIN approvals :
         approvals[i].requestId = approvals[j].requestId => i = j

C7_Witness ==
    /\ Len(approvals) = 1
    /\ deviceIdsDrawn < MaxDevices
    /\ \E r \in DOMAIN data.pendingRequests :
          /\ data.pendingRequests[r].status = "approved"
          /\ ticks > 0

\* A request that approveRequest accepts: pending and, in the web store, not
\* older than the expiry window.
Approvable(r) ==
    /\ data.pendingRequests[r].status = "pending"
    /\ store = "web" => now - data.pendingRequests[r].createdAt <= TwoMinutes

\* C8: a request carries a deviceId and a token exactly when it is approved;
\* a successful approveRequest adds one device that copies the request's
\* name, platform, browser and ip and marks the request approved with that
\* device's id and a token of that device in the same store; check-status
\* hands out a token only for an approved request.
C8_ApprovedCarriesDeviceAndToken ==
    \A r \in DOMAIN data.pendingRequests :
      LET request == data.pendingRequests[r]
          id == deviceIdsDrawn + 1
          approve == approveRequest(data, r, now, id)
          answer == CheckStatusHandler(data, now, r)
      IN /\ request.deviceId # NoId <=> request.status = "approved"
         /\ request.token # NoToken <=> request.status = "approved"
         /\ request.status = "approved" =>
              /\ request.token.deviceId = request.deviceId
              /\ verifyJWT(request.token, data.jwtSecret, now).valid
              /\ verifyJWT(request.token, data.jwtSecret, now).deviceId
                   = request.deviceId
         /\ Approvable(r) =>
              /\ approve.result # NoRequest
              /\ id \notin DOMAIN data.devices
              /\ DOMAIN approve.data.devices = DOMAIN data.devices \cup {id}
              /\ \A other \in DOMAIN data.devices :
                   approve.data.devices[other] = data.devices[other]
              /\ approve.data.devices[id].name = request.device.name
              /\ approve.data.devices[id].platform = request.device.platform
              /\ approve.data.devices[id].browser = request.device.browser
              /\ approve.data.devices[id].ip = request.ip
              /\ approve.data.pendingRequests[r].status = "approved"
              /\ approve.data.pendingRequests[r].deviceId = id
              /\ verifyJWT(approve.data.pendingRequests[r].token,
                           data.jwtSecret, now)
                   = [valid |-> TRUE, deviceId |-> id]
              /\ approve.result = approve.data.pendingRequests[r]
         /\ answer.token # NoToken =>
              /\ request.status = "approved"
              /\ answer.reqStatus = "approved"
              /\ answer.token = request.token

C8_Witness ==
    \E r \in DOMAIN data.pendingRequests :
       LET request == data.pendingRequests[r]
       IN /\ request.status = "approved"
          /\ request.deviceId \in DOMAIN data.devices
          /\ data.devices[request.deviceId].ip = request.ip
          /\ data.devices[request.deviceId].name = "Pixel"
          /\ request.token \in held["remote"]

\* C9: request-access with the correct code from the remote caller answers
\* with a request id; check-status then answers pending; once the operator's
\* approve within the expiry window succeeded, check-status answers approved
\* with a token and a deviceId, and validate with that token succeeds and
\* reports the same deviceId.
C9_RemoteHappyPath ==
    ValidCode(data) # NoCode =>
      \A operatorToken \in Presentable("local"), wait \in {0, TwoMinutes} :
        LET body == [json |-> TRUE, code |-> ValidCode(data),
                     device |-> BodyDevice("remote")]
            filed == RequestAccessHandler(data, now, requestIdsDrawn + 1,
                                          PeerAddress("remote"), NoHeader, body)
            first == CheckStatusHandler(filed.data, now, filed.requestId)
            later == now + wait
            approve == ApproveHandler(first.data, later, deviceIdsDrawn + 1,
                                      PeerAddress("local"), NoHeader, operatorToken,
                                      [json |-> TRUE, requestId |-> filed.requestId])
            second == CheckStatusHandler(approve.data, later, filed.requestId)
            validate == ValidateHandler(second.data, later, PeerAddress("remote"),
                                        NoHeader, second.token)
        IN /\ filed.status = 200
           /\ filed.requestId # NoId
           /\ filed.token = NoToken
           /\ first.reqStatus = "pending"
           /\ (gateway = "electron" \/ Authenticated(first.data, later, operatorToken)) =>
                /\ approve.status = 200
                /\ second.reqStatus = "approved"
                /\ second.token # NoToken
                /\ second.deviceId = approve.deviceId
                /\ second.deviceId # NoId
                /\ validate.status = 200
                /\ validate.deviceId = second.deviceId

C9_Witness ==
    /\ gateway = "plugin"
    /\ store = "web"
    /\ \E i \in DOMAIN approvals, token \in held["remote"] :
          /\ filer[approvals[i].requestId] = "remote"
          /\ approvals[i].caller = "local"
          /\ approvals[i].authValid
          /\ token.deviceId = approvals[i].deviceId
          /\ ValidateHandler(data, now, PeerAddress("remote"), NoHeader, token).status
               = 200

\* C10: in the legacy gateway verify-code from the local caller with the
\* current code creates exactly one device, with isHost true, and answers
\* with its token, deviceId and device; validate with that token afterwards
\* succeeds with the same deviceId.  With a wrong code it answers 401 and
\* creates no device.
C10_LocalBootstrap ==
    (gateway = "legacy" /\ authCodeFile # NoCode) =>
      \A device \in {NoBodyDevice, BodyDevice("remote")} :
        LET id == deviceIdsDrawn + 1
            verify == VerifyHandler(data, now, id, PeerAddress("local"), NoHeader,
                                    [json |-> TRUE, code |-> authCodeFile,
                                     device |-> device])
            wrong == VerifyHandler(data, now, id, PeerAddress("local"), NoHeader,
                                   [json |-> TRUE, code |-> WrongCode,
                                    device |-> device])
        IN /\ verify.status = 200
           /\ id \notin DOMAIN data.devices
           /\ DOMAIN verify.data.devices = DOMAIN data.devices \cup {id}
           /\ \A other \in DOMAIN data.devices :
                verify.data.devices[other] = data.devices[other]
           /\ verify.data.devices[id].isHost = "true"
           /\ verify.token # NoToken
           /\ verify.deviceId = id
           /\ verify.device = verify.data.devices[id]
           /\ \A wait \in {0, TwoMinutes} :
                LET validate == ValidateHandler(verify.data, now + wait,
                                                PeerAddress("local"), NoHeader,
                                                verify.token)
                IN validate.status = 200 /\ validate.deviceId = id
           /\ wrong.status = 401
           /\ wrong.data = data
           /\ wrong.token = NoToken

C10_Witness ==
    /\ gateway = "legacy"
    /\ \E token \in held["local"] :
          /\ token.deviceId \in DOMAIN data.devices
          /\ data.devices[token.deviceId].isHost = "true"
          /\ Authenticated(data, now, token)
          /\ data.devices[token.deviceId].lastSeenAt
               > data.devices[token.deviceId].createdAt

\* The address a caller's request shows to the gateway: the first entry of
\* its X-Forwarded-For header when it sends one, else its peer address.
ShownAddress(c, forwarded) ==
    IF forwarded = NoHeader THEN PeerAddress(c) ELSE forwarded[1]

\* The clock values of the exploration, and the well-signed tokens of a
\* device id: those issued at one of these times and those the callers hold.
ClockValues == {StartTime} \cup {StartTime + step : step \in TickSteps}
TokensOf(id) ==
    {generateJWT(id, data.jwtSecret, TOKEN_DAYS, t) : t \in ClockValues}
      \cup {token \in held["local"] \cup held["remote"] : token.deviceId = id}

\* A device id that left the registry does not come back.
RemovedDevicesStayRemoved ==
    \A id \in 1..deviceIdsDrawn :
        id \notin DOMAIN data.devices => id \notin DOMAIN data'.devices

\* C11: verify-code from the remote caller answers 403 for every code, the
\* correct one included, creates no device, issues no token and leaves the
\* store as it was.
C11_VerifyRejectsRemoteCaller ==
    gateway = "legacy" =>
      \A forwarded \in ForwardedValues("remote"), body \in CodeBodies("remote") :
        LET verify == VerifyHandler(data, now, deviceIdsDrawn + 1,
                                    PeerAddress("remote"), forwarded, body)
        IN /\ verify.status = 403
           /\ verify.token = NoToken
           /\ verify.data = data

\* C12: local-auto-auth and verify-code create a device and a token only for
\* the local caller: the remote caller gets 403 and no device whatever
\* X-Forwarded-For header it sends; the local caller's local-auto-auth needs
\* no code and creates a device without the isHost flag.
C12_OnlyLocalOriginIsIssuedADevice ==
    gateway \in {"legacy", "plugin"} =>
      /\ \A forwarded \in ForwardedValues("remote"), body \in DeviceBodies("remote") :
           LET auth == LocalAuthHandler(data, now, deviceIdsDrawn + 1,
                                        PeerAddress("remote"), forwarded, body)
           IN auth.status = 403 /\ auth.token = NoToken /\ auth.data = data
      /\ gateway = "legacy" =>
           \A forwarded \in ForwardedValues("remote"), body \in CodeBodies("remote") :
             LET verify == VerifyHandler(data, now, deviceIdsDrawn + 1,
                                         PeerAddress("remote"), forwarded, body)
             IN verify.status = 403 /\ verify.token = NoToken /\ verify.data = data
      /\ LET auth == LocalAuthHandler(data, now, deviceIdsDrawn + 1,
                                      PeerAddress("local"), NoHeader,
                                      [json |-> TRUE, device |-> NoBodyDevice])
         IN /\ auth.status = 200
            /\ auth.token # NoToken
            /\ auth.deviceId \in DOMAIN auth.data.devices
            /\ auth.data.devices[auth.deviceId].isHost = "absent"

\* C13: request-access from any caller with the correct code adds exactly
\* one request, pending, holding the address and the device description of
\* the call, and answers with its id; the devices are unchanged and no token
\* is issued.  With a wrong code it answers 401 and the store is unchanged.
C13_RequestAccessFilesOneRequest ==
    \A c \in Callers :
      \A forwarded \in ForwardedValues(c) :
        LET id == requestIdsDrawn + 1
            body(code) == [json |-> TRUE, code |-> code, device |-> BodyDevice(c)]
            filed == RequestAccessHandler(data, now, id, PeerAddress(c), forwarded,
                                          body(ValidCode(data)))
            wrong == RequestAccessHandler(data, now, id, PeerAddress(c), forwarded,
                                          body(WrongCode))
            before == data.pendingRequests
            after == filed.data.pendingRequests
        IN ValidCode(data) # NoCode =>
             /\ filed.status = 200
             /\ filed.requestId = id
             /\ filed.token = NoToken
             /\ id \notin DOMAIN before
             /\ id \in DOMAIN after
             /\ DOMAIN after \subseteq DOMAIN before \cup {id}
             /\ after[id].status = "pending"
             /\ after[id].createdAt = now
             /\ after[id].ip = ShownAddress(c, forwarded)
             /\ after[id].device.name = OrDefault(BodyDevice(c).name, "Unknown Device")
             /\ after[id].device.platform = OrDefault(BodyDevice(c).platform, "Unknown")
             /\ after[id].device.browser = OrDefault(BodyDevice(c).browser, "Unknown")
             /\ after[id].deviceId = NoId
             /\ after[id].token = NoToken
             /\ \A r \in DOMAIN after \ {id} :
                   \/ after[r] = before[r]
                   \/ before[r].status = "pending" /\ after[r].status = "expired"
             /\ filed.data.devices = data.devices
             /\ wrong.status = 401
             /\ wrong.token = NoToken
             /\ wrong.data = data

C13_Witness ==
    \E r \in DOMAIN data.pendingRequests :
        /\ data.pendingRequests[r].status = "pending"
        /\ data.pendingRequests[r].createdAt = now
        /\ data.pendingRequests[r].ip = LanAddress
        /\ data.pendingRequests[r].device.name = "Pixel"
        /\ filer[r] = "remote"
        /\ data.devices = <<>>

\* What logout answers and leaves behind, in the current state.
C14_LogoutNow ==
    \A c \in Callers :
      \A token \in Presentable(c) :
        LET logout == LogoutHandler(data, now, token)
        IN IF Authenticated(data, now, token)
             THEN /\ logout.status = 200
                  /\ \A later \in ClockValues, other \in TokensOf(token.deviceId) \cup {token} :
                       later >= now =>
                         ValidateHandler(logout.data, later, PeerAddress(c), NoHeader,
                                         other).status = 401
             ELSE /\ logout.status = 401
                  /\ logout.data = data

\* C14: after a successful logout, validate with the token, and with every
\* other token of the same device id, answers 401 from then on; logout with
\* an absent or invalid token answers 401 and removes no device.
C14_LogoutEndsTheDevice ==
    []C14_LogoutNow /\ [][RemovedDevicesStayRemoved]_vars

C14_Witness ==
    /\ gateway = "legacy"
    /\ ticks > 0
    /\ \E token \in data.revokedTokens :
          /\ token \in held["remote"]
          /\ token.deviceId \notin DOMAIN data.devices
          /\ token.iat < now \div 1000

\* Tokens put to verifyToken: for every device id drawn so far and the next
\* one, the well-signed tokens and one that expired a second before the
\* start; a token with a made-up signature; the tokens the callers hold.
C15_Tokens ==
    UNION {TokensOf(id) \cup {generateJWT(id, data.jwtSecret, 0, StartTime - 1000)} :
             id \in 1..(deviceIdsDrawn + 1)}
      \cup {ForgedToken} \cup held["local"] \cup held["remote"]

WellSigned(token) ==
    token.sig = createHmacSignature(
                    [deviceId |-> token.deviceId, iat |-> token.iat, exp |-> token.exp],
                    data.jwtSecret)

Unexpired(token, nowMs) == token.exp = 0 \/ token.exp >= nowMs \div 1000

C15_VerifyNow ==
    \A token \in C15_Tokens :
      LET result == verifyToken(data, token, now)
      IN /\ result.valid =>
              /\ WellSigned(token)
              /\ Unexpired(token, now)
              /\ token.deviceId \in DOMAIN data.devices
              /\ result.deviceId = token.deviceId
         /\ (WellSigned(token) /\ token.deviceId \notin DOMAIN data.devices) =>
              result = [valid |-> FALSE, deviceId |-> NoId]

\* A token of a device id that is not in the registry is not accepted after
\* the step either.
RemovedDevicesStayRejected ==
    \A c \in Callers :
      \A token \in held[c] :
        token.deviceId \notin DOMAIN data.devices =>
          /\ token \in held'[c]
          /\ token.deviceId \notin DOMAIN data'.devices
          /\ ~verifyToken(data', token, now').valid

\* C15: verifyToken accepts a token only if its signature is good, it has
\* not expired and its device id is in the registry now; a well-signed token
\* of a deleted device gives {valid: false}; a deleted device's id is never
\* registered again, so its tokens are never accepted again.
C15_ValidOnlyForRegisteredDevice ==
    []C15_VerifyNow /\ [][RemovedDevicesStayRejected]_vars

C15_Witness ==
    \E token \in held["remote"] :
        /\ WellSigned(token)
        /\ Unexpired(token, now)
        /\ token \notin data.revokedTokens
        /\ token.deviceId \notin DOMAIN data.devices
        /\ data.devices # <<>>

\* C16: revoke-others with a valid token of device A leaves exactly A in the
\* registry, its record unchanged, and answers the number of devices before
\* the call minus one; when A is the only device the answer is 0 and the
\* store is unchanged.
C16_RevokeOthersKeepsOnlyTheCaller ==
    gateway \in {"legacy", "electron"} =>
      \A c \in Callers :
        \A token \in held[c] :
          LET A == token.deviceId
              out == RevokeOthersHandler(data, now, token)
          IN Authenticated(data, now, token) =>
               /\ out.status = 200
               /\ DOMAIN out.data.devices = {A}
               /\ out.data.devices[A] = data.devices[A]
               /\ out.revokedCount = Cardinality(DOMAIN data.devices) - 1
               /\ out.data.pendingRequests = data.pendingRequests
               /\ DOMAIN data.devices = {A} => out.revokedCount = 0 /\ out.data = data

\* Two devices are registered and a caller holds a valid token of one.
C16_Witness ==
    /\ gateway = "legacy"
    /\ Cardinality(DOMAIN data.devices) = 2
    /\ \E token \in held["remote"] :
          /\ Authenticated(data, now, token)
          /\ RevokeOthersHandler(data, now, token).revokedCount = 1

\* C17: revoke-device with a valid token answers 400 for the caller's own
\* id and 404 for an id not in the registry, the store unchanged in both;
\* otherwise it removes exactly the target, every other device (the
\* caller's included) is unchanged, and the target's tokens stop validating.
C17_RevokeDeviceRemovesOnlyTheTarget ==
    gateway \in {"legacy", "electron"} =>
      \A c \in Callers :
        \A token \in held[c] :
          \A target \in KnownDeviceIds \cup {NoId} :
            LET out == RevokeHandler(data, now, token, target)
            IN Authenticated(data, now, token) =>
                 IF target = token.deviceId
                   THEN out.status = 400 /\ out.data = data
                 ELSE IF target \notin DOMAIN data.devices
                   THEN out.status = 404 /\ out.data = data
                 ELSE /\ out.status = 200
                      /\ DOMAIN out.data.devices = DOMAIN data.devices \ {target}
                      /\ \A id \in DOMAIN out.data.devices :
                            out.data.devices[id] = data.devices[id]
                      /\ out.data.pendingRequests = data.pendingRequests
                      /\ \A other \in TokensOf(target), caller \in Callers :
                            /\ ~verifyToken(out.data, other, now).valid
                            /\ ValidateHandler(out.data, now, PeerAddress(caller),
                                               NoHeader, other).status = 401

\* A caller holds a valid token of one device and a second device is there
\* to revoke.
C17_Witness ==
    /\ gateway = "legacy"
    /\ \E token \in held["local"] :
          /\ Authenticated(data, now, token)
          /\ \E target \in DOMAIN data.devices :
                /\ target # token.deviceId
                /\ RevokeHandler(data, now, token, target).status = 200
                /\ held["remote"] \cap TokensOf(target) # {}

\* C18: rename with a name that is missing, not a string, empty or made of
\* white space only answers 400 to a caller with a valid token (401 to any
\* other) and leaves the registry and the whole store as they were, for
\* every target id, registered or not.
C18_RenameRefusesBlankNames ==
    gateway \in {"legacy", "electron"} =>
      \A c \in Callers :
        \A token \in Presentable(c), target \in KnownDeviceIds \cup {NoId} :
          \A body \in {Malformed} \cup {[json |-> TRUE, name |-> name] : name \in InvalidNames} :
            LET out == RenameHandler(data, now, token, target, body)
            IN /\ out.data = data
               /\ out.status = IF Authenticated(data, now, token) THEN 400 ELSE 401

\* A caller with a valid token sends a blank name for a registered device.
C18_Witness ==
    /\ gateway \in {"legacy", "electron"}
    /\ \E c \in Callers :
         \E token \in held[c], target \in DOMAIN data.devices :
            /\ Authenticated(data, now, token)
            /\ RenameHandler(data, now, token, target,
                             [json |-> TRUE, name |-> StringName(<<" ">>)]).status = 400

\* The string a valid name is stored as.
Trimmed(name) == IF name.text = <<"Mac">> THEN "Mac" ELSE "My Mac"

\* C19: rename with a valid token of any device sets the target's name to
\* the trimmed name and changes nothing else: the target's other fields, the
\* other devices and the rest of the store are as before; for a target not
\* in the registry it answers 404 and changes nothing.
C19_RenameSetsOnlyTheName ==
    gateway \in {"legacy", "electron"} =>
      \A c \in Callers :
        \A token \in held[c], target \in KnownDeviceIds \cup {NoId} :
          \A name \in ValidNames :
            LET out == RenameHandler(data, now, token, target,
                                     [json |-> TRUE, name |-> name])
                before == data.devices
                after == out.data.devices
            IN Authenticated(data, now, token) =>
                 IF target \in DOMAIN before
                   THEN /\ out.status = 200
                        /\ DOMAIN after = DOMAIN before
                        /\ after[target].name = Trimmed(name)
                        /\ after[target].id = before[target].id
                        /\ after[target].platform = before[target].platform
                        /\ after[target].browser = before[target].browser
                        /\ after[target].createdAt = before[target].createdAt
                        /\ after[target].lastSeenAt = before[target].lastSeenAt
                        /\ after[target].ip = before[target].ip
                        /\ after[target].isHost = before[target].isHost
                        /\ \A id \in DOMAIN before \ {target} : after[id] = before[id]
                        /\ out.data = [data EXCEPT !.devices[target].name = Trimmed(name)]
                        /\ out.device = after[target]
                   ELSE out.status = 404 /\ out.data = data

\* A device renamed with surrounding white space, next to a device of
\* another name whose token a caller holds.
C19_Witness ==
    \E target \in DOMAIN data.devices :
        /\ data.devices[target].name = "My Mac"
        /\ \E c \in Callers :
             \E token \in held[c] :
                /\ Authenticated(data, now, token)
                /\ token.deviceId # target

\* C20: in every gateway, validate with a token that verifies sets the
\* lastSeenAt of the token's device to the current time and its ip to the
\* address of the call, answers with that device and changes no other
\* device; validate with any other token answers 401 and changes nothing.
C20_ValidateRefreshesLastSeen ==
    \A c \in Callers :
      \A forwarded \in ForwardedValues(c), token \in Presentable(c) :
        LET out == ValidateHandler(data, now, PeerAddress(c), forwarded, token)
            id == token.deviceId
        IN IF token # NoToken /\ verifyToken(data, token, now).valid
             THEN /\ out.status = 200
                  /\ DOMAIN out.data.devices = DOMAIN data.devices
                  /\ out.data.devices[id].lastSeenAt = now
                  /\ out.data.devices[id].ip = getClientIp(PeerAddress(c), forwarded)
                  /\ out.device = out.data.devices[id]
                  /\ \A other \in DOMAIN data.devices \ {id} :
                        out.data.devices[other] = data.devices[other]
                  /\ out.data.pendingRequests = data.pendingRequests
             ELSE /\ out.status = 401
                  /\ out.data = data

\* C21: in every gateway, get-access-code answers with the code only when
\* the caller presents a token that verifies; with no token or a token that
\* does not verify it answers 401 and no code.
C21_CodeOnlyForValidToken ==
    \A c \in Callers :
      \A token \in Presentable(c) :
        LET out == CodeHandler(data, now, token)
        IN /\ out.data = data
           /\ IF Authenticated(data, now, token)
                THEN out.status \in {200, 404} /\ (out.status = 200 <=> out.code # NoCode)
                ELSE out.status = 401 /\ out.code = NoCode

\* C22: in both stores listPendingRequests returns exactly the requests
\* that are pending and not older than the 2-minute window, each once,
\* newest first.
C22_ListIsPendingWithinWindowNewestFirst ==
    LET listed == listPendingRequests(data, now).result
        pr == data.pendingRequests
        current == {id \in DOMAIN pr : /\ pr[id].status = "pending"
                                       /\ now - pr[id].createdAt <= TwoMinutes}
    IN /\ {listed[i].id : i \in 1..Len(listed)} = current
       /\ Len(listed) = Cardinality(current)
       /\ \A i \in 1..Len(listed) : listed[i] = pr[listed[i].id]
       /\ \A i, j \in 1..Len(listed) :
             i < j => listed[i].createdAt >= listed[j].createdAt

\* The payload a token's second piece decodes to.
PayloadText(token) == base64UrlDecode(token[2])

\* C24: a token minted for device id d with secret s, verified with s at
\* any second up to its exp, is valid and its payload's deviceId is d.
C24_MintedTokenRoundTrips ==
    (probe.stage = "verified" /\ probe.origin = "minted"
       /\ probe.key = data.jwtSecret /\ probe.at <= ExpiryS) =>
      /\ probe.jwt.valid
      /\ "deviceId" \in probe.jwt.payload.has
      /\ probe.jwt.payload.deviceId = probe.deviceId
      /\ probe.jwt.payload.iat = IssueS
      /\ probe.jwt.payload.exp = ExpiryS

\* A minted token verified with its own secret in the last second of its
\* life.
C24_Witness ==
    /\ probe.stage = "verified"
    /\ probe.origin = "minted"
    /\ probe.deviceId = 2
    /\ probe.key = data.jwtSecret
    /\ probe.at = ExpiryS
    /\ probe.jwt.valid

\* C25: a token made with one secret, whatever its payload, is rejected by
\* verifyJWT with another secret; a token whose header or payload was
\* changed after signing is rejected with every secret.
C25_OtherSecretOrAlteredIsRejected ==
    probe.stage = "verified" =>
      /\ (probe.origin \in {"minted"} \cup DOMAIN CraftedPayloads
            /\ probe.key # data.jwtSecret) => ~probe.jwt.valid
      /\ probe.origin \in SignedParts => ~probe.jwt.valid

\* A token valid under its own secret, verified with another one; a token
\* whose header was changed, verified with the secret that signed it.
C25_Witness ==
    /\ probe.stage = "verified"
    /\ probe.at = IssueS
    /\ \/ /\ probe.origin = "minted"
          /\ probe.key # data.jwtSecret
          /\ verifyJWTText(probe.token, data.jwtSecret, probe.at).valid
       \/ /\ probe.origin = "header"
          /\ probe.key = data.jwtSecret

\* C26: verifyJWT rejects every token whose exp lies before the second of
\* verification, 0 included, well signed or not; a minted token is accepted
\* up to and including its exp and rejected from the next second on.
C26_ExpiredIsRejected ==
    probe.stage = "verified" =>
      /\ (Len(probe.token) = 3
            /\ PayloadText(probe.token).type = "object"
            /\ "exp" \in PayloadText(probe.token).has
            /\ PayloadText(probe.token).exp < probe.at) => ~probe.jwt.valid
      /\ (probe.origin = "minted" /\ probe.key = data.jwtSecret) =>
            (probe.jwt.valid <=> probe.at <= ExpiryS)

\* The tokens that are no token at all, or carry no signature of the secret.
Unsigned == DOMAIN MalformedTokens \cup {"signature", "twoParts", "fourParts"}

\* C27 as stated: verifyJWT and verifyToken return {valid: false} for
\* every string of the listed kinds, a payload without deviceId included.
C27_EveryListedStringIsInvalid ==
    (probe.stage = "verified"
       /\ probe.origin \in Unsigned \cup {"notJson", "null", "noDeviceId"}) =>
      /\ ~probe.jwt.threw /\ ~probe.jwt.valid
      /\ ~probe.verdict.threw /\ ~probe.verdict.valid

\* C27: verifyJWT and verifyToken never throw.  Both answer {valid: false}
\* for a string with other than three pieces, with a signature that is not
\* the secret's, or with a payload that is no JSON or is null; verifyToken
\* also answers {valid: false} for a payload without deviceId, which
\* verifyJWT accepts when the signature is the secret's.  The store is not
\* changed.
C27_NeverThrows ==
    /\ ~probe.jwt.threw
    /\ ~probe.verdict.threw
    /\ (probe.stage = "verified"
          /\ probe.origin \in Unsigned \cup {"notJson", "null"}) =>
         ~probe.jwt.valid /\ ~probe.verdict.valid
    /\ (probe.stage = "verified" /\ probe.origin = "noDeviceId") =>
         /\ ~probe.verdict.valid
         /\ probe.jwt.valid <=> (probe.key = data.jwtSecret /\ probe.at <= ExpiryS)
    /\ data \in {StoreWithDevice(secret) : secret \in Secrets}

\* A well-signed token whose payload is no JSON was put to verifyJWT and
\* verifyToken with the secret that signed it.
C27_Witness ==
    /\ probe.stage = "verified"
    /\ probe.origin = "notJson"
    /\ Len(probe.token) = 3
    /\ probe.token[3] = createHmacSignatureText(<<probe.token[1], probe.token[2]>>,
                                                data.jwtSecret)
    /\ probe.key = data.jwtSecret
    /\ ~probe.jwt.valid

\* C30: while nothing but the store writes the file, after every completed
\* store operation the file holds exactly the state in memory, and a restart
\* loads the same devices, pendingRequests, revokedTokens and jwtSecret
\* without drawing a new secret.
C30_SnapshotEqualsMemory ==
    faults = 0 =>
        /\ disk = File(data)
        /\ load(disk, generateSecret).data = data
        /\ ~load(disk, generateSecret).drew

\* A store with a device, a resolved request and a revoked token, some time
\* after the last save.
C30_Witness ==
    /\ faults = 0
    /\ data.devices # <<>>
    /\ data.revokedTokens # {}
    /\ \E id \in DOMAIN data.pendingRequests :
         data.pendingRequests[id].status = "approved"
    /\ ticks > 0
    /\ disk.content = data

\* C29: over any sequence of store operations, reloads and restarts, also
\* after a load that found the file unparsable or without jwtSecret, the
\* secret in use is the one first generated, and every token handed out
\* earlier whose device exists (and that was not revoked) still verifies.
C29_SecretStaysTheFirst ==
    /\ data.jwtSecret = SecretPool[1]
    /\ \A token \in Minted :
         (token.deviceId \in DOMAIN data.devices /\ token \notin data.revokedTokens)
            => verifyToken(data, token, now).valid

\* C23: in the web store, while the file is readable, a store operation
\* removes a request only if the request was already resolved (approved,
\* denied or expired) and its resolvedAt lies more than 24 hours back; a
\* pending request is never removed, and an approved request is still
\* returned by getPendingRequest, with its token, up to 24 hours after the
\* approval.
C23_OnlyOldResolvedRequestsAreDeleted ==
    [][(store = "web" /\ disk.kind = "json") =>
         \A id \in DOMAIN data.pendingRequests :
            LET request == data.pendingRequests[id]
            IN /\ id \notin DOMAIN data'.pendingRequests =>
                    /\ request.status # "pending"
                    /\ request.resolvedAt # NoTime
                    /\ request.resolvedAt < now - RETENTION_MS
               /\ (request.status = "approved"
                   /\ now' - request.resolvedAt <= RETENTION_MS) =>
                    /\ id \in DOMAIN data'.pendingRequests
                    /\ getPendingRequestWeb(data', id, now').result = request
                    /\ request.token # NoToken]_vars

\* The housekeeping has deleted a request and, in the same store, kept one
\* that it marked expired more than 24 hours after its creation.
C23_Witness ==
    /\ store = "web"
    /\ faults = 0
    /\ \E id \in 1..requestIdsDrawn : id \notin DOMAIN data.pendingRequests
    /\ \E id \in DOMAIN data.pendingRequests :
         /\ data.pendingRequests[id].status = "expired"
         /\ data.pendingRequests[id].createdAt < now - RETENTION_MS

\* The code of a secret, whatever else the store holds.
CodeOf(secret) == getAccessCode(createEmpty(secret))

\* C28: getAccessCode always returns six decimal digits; over every store
\* operation, reload and restart the code changes only when the secret
\* changes; and two secrets have the same code exactly when the first 48
\* bits of their SHA-256 agree modulo 1000000 (so different secrets can
\* share a code).
C28_CodeIsSixDigitsOfTheSecret ==
    /\ [](/\ Len(getAccessCode(data)) = 6
          /\ \A i \in 1..6 : getAccessCode(data)[i] \in 0..9
          /\ getAccessCode(data) = CodeOf(data.jwtSecret))
    /\ [][data'.jwtSecret = data.jwtSecret
            => getAccessCode(data') = getAccessCode(data)]_vars
    /\ [](\A i, j \in 1..Len(SecretPool) :
            CodeOf(SecretPool[i]) = CodeOf(SecretPool[j])
              <=> parseIntMod(Sha256Prefix(SecretPool[i]), CODE_MODULUS)
                    = parseIntMod(Sha256Prefix(SecretPool[j]), CODE_MODULUS))

\* A store with a device whose secret was replaced twice: its code has a
\* leading zero and differs from the code of the first secret.
C28_Witness ==
    /\ data.jwtSecret = "secretB"
    /\ getAccessCode(data) = <<0, 9, 3, 2, 2, 8>>
    /\ getAccessCode(data) # CodeOf(SecretPool[1])
    /\ data.devices # <<>>

\* C28 as stated: a store whose secret is not the first one has a code other
\* than the first one.
C28_DifferentSecretsDifferentCodes ==
    data.jwtSecret # SecretPool[1] => getAccessCode(data) # CodeOf(SecretPool[1])

\* C33: in the web store, a request that is pending and older than the
\* 2-minute window when an operation runs is, after the operation, pending
\* (untouched) or expired, never approved or denied.
C33_OverAgePendingOnlyExpires ==
    [][store = "web" =>
         \A id \in DOMAIN data.pendingRequests \cap DOMAIN data'.pendingRequests :
            (/\ data.pendingRequests[id].status = "pending"
             /\ now - data.pendingRequests[id].createdAt > REQUEST_EXPIRY_MS)
               => data'.pendingRequests[id].status \in {"pending", "expired"}]_vars


\* C34: in the web store every request has resolvedAt set exactly when its
\* status is approved, denied or expired, and then resolvedAt >= createdAt;
\* an operation that takes a request out of pending stamps it with the
\* current time, and a resolved request keeps its status and resolvedAt.
C34_ResolvedAtIffTerminal ==
    /\ [](store = "web" =>
            \A id \in DOMAIN data.pendingRequests :
               LET request == data.pendingRequests[id]
               IN /\ request.status \in Terminal \cup {"pending"}
                  /\ request.resolvedAt # NoTime <=> request.status \in Terminal
                  /\ request.status \in Terminal
                       => request.resolvedAt >= request.createdAt)
    /\ [][store = "web" =>
            \A id \in DOMAIN data.pendingRequests \cap DOMAIN data'.pendingRequests :
               LET before == data.pendingRequests[id]
                   after == data'.pendingRequests[id]
               IN /\ before.status \in Terminal =>
                       /\ after.status = before.status
                       /\ after.resolvedAt = before.resolvedAt
                  /\ (before.status = "pending" /\ after.status # "pending") =>
                       after.resolvedAt = now]_vars

\* A web store that holds a request marked expired after its creation and a
\* request that was approved or denied.
C34_Witness ==
    /\ store = "web"
    /\ \E id \in DOMAIN data.pendingRequests :
         /\ data.pendingRequests[id].status = "expired"
         /\ data.pendingRequests[id].resolvedAt > data.pendingRequests[id].createdAt
    /\ \E id \in DOMAIN data.pendingRequests :
         data.pendingRequests[id].status \in {"approved", "denied"}

\* C35: an address is classified local exactly when it is "127.0.0.1",
\* "::1" or "localhost", bare or behind one leading "::ffff:"; other 127.x
\* addresses, LAN and public addresses, "unknown", the empty string and
\* addresses with the prefix twice or elsewhere than in front are not local.
C35_LocalExactlyForLoopbackNames ==
    probe.stage = "classified" =>
       /\ probe.isLocal <=>
            probe.clientIp \in {<<"127.0.0.1">>, <<"::1">>, <<"localhost">>,
                                <<"::ffff:", "127.0.0.1">>, <<"::ffff:", "::1">>,
                                <<"::ffff:", "localhost">>}
       /\ probe.clientIp \in {<<"127.0.0.2">>, <<"127.1.2.3">>, LanAddress,
                              <<"unknown">>, <<>>,
                              <<"::ffff:", "::ffff:", "127.0.0.1">>}
            => ~probe.isLocal

\* A mapped loopback address was classified local, taken from the socket.
C35_Witness ==
    /\ probe.stage = "classified"
    /\ probe.forwarded = NoHeader
    /\ probe.clientIp = <<"::ffff:", "127.0.0.1">>
    /\ probe.isLocal

\* What the running process answers a read from: the file it has just
\* reloaded (web side) or its memory (Electron).
ReadFrom == ensureFresh.data

\* C31: with two processes on one file, whatever a read operation of the
\* running process returns (getDevice, listDevices, verifyToken,
\* getPendingRequest, listPendingRequests, getAccessCode) is what the file
\* last written by either process gives.
C31_ReadsReflectTheLastSnapshot ==
    /\ \A deviceId \in 1..StoreDevices :
         getDevice(ReadFrom, deviceId) = getDevice(disk.content, deviceId)
    /\ ReadFrom.devices = disk.content.devices
    /\ \A token \in Minted :
         verifyToken(ReadFrom, token, now) = verifyToken(disk.content, token, now)
    /\ \A requestId \in 1..StoreRequests :
         getPendingRequest(ReadFrom, requestId, now).result
           = getPendingRequest(disk.content, requestId, now).result
    /\ listPendingRequests(ReadFrom, now).result
         = listPendingRequests(disk.content, now).result
    /\ getAccessCode(data) = getAccessCode(disk.content)

\* C32: with two processes on one file whose operations do not overlap, an
\* operation that files a request leaves the devices on the file as they
\* were (none lost, none back), and an operation that adds or removes a
\* device leaves every request on the file.
C32_NoCommittedUpdateIsLost ==
    [][/\ requestIdsDrawn' # requestIdsDrawn
          => DOMAIN disk'.content.devices = DOMAIN disk.content.devices
       /\ deviceIdsDrawn' # deviceIdsDrawn
          => DOMAIN disk.content.pendingRequests
               \subseteq DOMAIN disk'.content.pendingRequests
       /\ (store' = store /\ DOMAIN data'.devices # DOMAIN data.devices)
          => DOMAIN disk.content.pendingRequests
               \subseteq DOMAIN disk'.content.pendingRequests]_vars

\* C36: when an approve or deny handler goes on after the await, and the
\* token it verified before the await is no longer valid (its device was
\* removed meanwhile), it changes no request and creates no device.
C36_DecisionNeedsTokenStillValid ==
    [][(/\ probe.stage = "awaiting"
        /\ probe'.stage = "none"
        /\ ~verifyToken(data, probe.token, now).valid)
          => /\ data'.devices = data.devices
             /\ data'.pendingRequests = data.pendingRequests]_vars

\* C37: at most one tunnel process is live, and while the process started
\* last is live the manager holds it and its info describes it: status
\* starting or running, and no URL but that process's.
C37_OneTunnelDescribedByInfo ==
    /\ Cardinality(Live) <= 1
    /\ LET last == Len(service.children)
       IN (last > 0 /\ service.children[last] = "running") =>
             /\ service.process = last
             /\ service.info.status \in {"starting", "running"}
             /\ service.info.url \in {<<>>, TunnelUrl(last)}

\* C38: whenever no start() or stop() is suspended, status.running is true
\* exactly when a child-process handle is held.
C38_RunningIffProcessHeld ==
    service.call = "none" => (service.status.running <=> service.process # NoChild)

====
